---- MODULE Spec2Model ----
(***************************************************************************)
(* A model of pocket_prover (src/src/lib.rs): the bit-parallel truth-table *)
(* counters count1..count10 and countn, the path-semantical counters       *)
(* path1_count3..path1_count10 and path1_countnm, path1_lennm, and the     *)
(* scoped ambient seed that `call` installs around a closure evaluation.   *)
(*                                                                         *)
(* A 64-bit word is the set of its set bit positions, a subset of 0..63    *)
(* (bit 0 is the least significant): `&` is \cap, `|` is \cup, `!` is the  *)
(* complement in 0..63 and count_ones is Cardinality.                      *)
(***************************************************************************)
EXTENDS Integers, Sequences, FiniteSets, TLC

VARIABLES
  pc,     \* position of the run
  inp,    \* the input the run was started with
  out,    \* the results computed so far
  cur,    \* the ambient seed: the entry Current<u64> reads, if any
  stack,  \* the seed guards alive (CurrentGuard<u64>), innermost last
  log     \* what the run has observed so far

vars == <<pc, inp, out, cur, stack, log>>

\* ------------------------------------------------------------------ words

WordBits == 64
Bit == 0..(WordBits - 1)

RECURSIVE Pow2(_)
Pow2(k) == IF k = 0 THEN 1 ELSE 2 * Pow2(k - 1)

\* A binary literal 0b..., most significant digit first, as the word it denotes.
FromBin(d) == {j \in Bit : j < Len(d) /\ d[Len(d) - j] = 1}

\* A hexadecimal literal 0x..., most significant digit first (digit values 0..15).
FromHex(d) ==
  {j \in Bit : (j \div 4) < Len(d) /\ (d[Len(d) - (j \div 4)] \div Pow2(j % 4)) % 2 = 1}

count_ones(w) == Cardinality(w)

\* src/src/lib.rs:522
F ==
  FromBin(<<0,0,0,0,0,0,0,0,0,0,0,0,0,0,0,0,0,0,0,0,0,0,0,0,0,0,0,0,0,0,0,0,0,0,0,0,0,0,0,0,0,0,0,0,0,0,0,0,0,0,0,0,0,0,0,0,0,0,0,0,0,0,0,0>>)

\* src/src/lib.rs:524
P0 ==
  FromBin(<<1,0,1,0,1,0,1,0,1,0,1,0,1,0,1,0,1,0,1,0,1,0,1,0,1,0,1,0,1,0,1,0,1,0,1,0,1,0,1,0,1,0,1,0,1,0,1,0,1,0,1,0,1,0,1,0,1,0,1,0,1,0,1,0>>)

\* src/src/lib.rs:526
P1 ==
  FromBin(<<1,1,0,0,1,1,0,0,1,1,0,0,1,1,0,0,1,1,0,0,1,1,0,0,1,1,0,0,1,1,0,0,1,1,0,0,1,1,0,0,1,1,0,0,1,1,0,0,1,1,0,0,1,1,0,0,1,1,0,0,1,1,0,0>>)

\* src/src/lib.rs:528
P2 ==
  FromBin(<<1,1,1,1,0,0,0,0,1,1,1,1,0,0,0,0,1,1,1,1,0,0,0,0,1,1,1,1,0,0,0,0,1,1,1,1,0,0,0,0,1,1,1,1,0,0,0,0,1,1,1,1,0,0,0,0,1,1,1,1,0,0,0,0>>)

\* Mutant of P3: the pattern of P2 pasted again.
P3_mut == P2

\* src/src/lib.rs:530
P3 ==
  FromBin(<<1,1,1,1,1,1,1,1,0,0,0,0,0,0,0,0,1,1,1,1,1,1,1,1,0,0,0,0,0,0,0,0,1,1,1,1,1,1,1,1,0,0,0,0,0,0,0,0,1,1,1,1,1,1,1,1,0,0,0,0,0,0,0,0>>)

\* src/src/lib.rs:532
P4 ==
  FromBin(<<1,1,1,1,1,1,1,1,1,1,1,1,1,1,1,1,0,0,0,0,0,0,0,0,0,0,0,0,0,0,0,0,1,1,1,1,1,1,1,1,1,1,1,1,1,1,1,1,0,0,0,0,0,0,0,0,0,0,0,0,0,0,0,0>>)

\* src/src/lib.rs:534
P5 ==
  FromBin(<<1,1,1,1,1,1,1,1,1,1,1,1,1,1,1,1,1,1,1,1,1,1,1,1,1,1,1,1,1,1,1,1,0,0,0,0,0,0,0,0,0,0,0,0,0,0,0,0,0,0,0,0,0,0,0,0,0,0,0,0,0,0,0,0>>)

\* src/src/lib.rs:537
T ==
  FromBin(<<1,1,1,1,1,1,1,1,1,1,1,1,1,1,1,1,1,1,1,1,1,1,1,1,1,1,1,1,1,1,1,1,1,1,1,1,1,1,1,1,1,1,1,1,1,1,1,1,1,1,1,1,1,1,1,1,1,1,1,1,1,1,1,1>>)

\* --------------------------------------------------------- connectives
\* src/src/lib.rs:1072-1089

not(a) == Bit \ a
and(a, b) == a \cap b
or(a, b) == a \cup b
xor(a, b) == (a \ b) \cup (b \ a)
eq(a, b) == not(xor(a, b))
imply(a, b) == not(a) \cup b

\* ------------------------------------------------------- quality layer
\* src/src/lib.rs:557-577

\* The 64-bit word of the seed numbered s.
SeedWord(s) == {i \in 0..7 : (s \div Pow2(i)) % 2 = 1}

\* qubit(a): the first word of the generator seeded with a ^ *r, r the ambient
\* seed c. The generator g gives that word for every seed it may be given: it
\* is deterministic, and nothing else is known of it.
qubit(a, c, g) == g[xor(a, SeedWord(c.v))]

\* Mutant of amplify_step: the word is replaced, not or-ed.
amplify_step_mut(a, c, g) == qubit(a, c, g)

\* amplify, one turn of the loop: a |= qubit(a)
amplify_step(a, c, g) == or(a, qubit(a, c, g))

\* Mutant of amplify: the loop runs over 0..=n.
RECURSIVE amplify_mut(_, _, _, _)
amplify_mut(n, a, c, g) ==
  IF n = 0 THEN amplify_step(a, c, g)
  ELSE amplify_mut(n - 1, amplify_step(a, c, g), c, g)

\* amplify(n, a): for _ in 0..n {a |= qubit(a)}; a
RECURSIVE amplify(_, _, _, _)
amplify(n, a, c, g) ==
  IF n = 0 THEN a ELSE amplify(n - 1, amplify_step(a, c, g), c, g)

\* Mutant of qual: the random gate of the diagonal is left out.
qual_mut_nogate(a, b, c, g) == eq(a, b)

\* Mutant of qual: the gate is applied off the diagonal too.
qual_mut_gated(a, b, c, g) == and(eq(a, b), qubit(a, c, g))

\* and(eq(a, b), if a == b {qubit(a)} else {T})
qual(a, b, c, g) == and(eq(a, b), IF a = b THEN qubit(a, c, g) ELSE T)

\* ------------------------------------------------------------ formulas
\* A user closure is a formula over the propositional variables 1..n, given
\* as a syntax tree and evaluated with the connectives above.

Var(i) == [op |-> "var", i |-> i]
TT == [op |-> "T"]
FF == [op |-> "F"]
Const(w) == [op |-> "const", w |-> w]
Not(a) == [op |-> "not", a |-> a]
Bin(o, a, b) == [op |-> o, a |-> a, b |-> b]
\* qual(a, b) in a closure evaluated while c is the ambient seed and g the
\* generator.
Qual(a, b, c, g) == [op |-> "qual", a |-> a, b |-> b, c |-> c, g |-> g]

RECURSIVE Eval(_, _)
Eval(e, a) ==
  CASE e.op = "T" -> T
    [] e.op = "F" -> F
    [] e.op = "var" -> a[e.i]
    [] e.op = "const" -> e.w
    [] e.op = "not" -> not(Eval(e.a, a))
    [] e.op = "and" -> and(Eval(e.a, a), Eval(e.b, a))
    [] e.op = "or" -> or(Eval(e.a, a), Eval(e.b, a))
    [] e.op = "xor" -> xor(Eval(e.a, a), Eval(e.b, a))
    [] e.op = "eq" -> eq(Eval(e.a, a), Eval(e.b, a))
    [] e.op = "imply" -> imply(Eval(e.a, a), Eval(e.b, a))
    [] e.op = "qual" -> qual(Eval(e.a, a), Eval(e.b, a), e.c, e.g)

\* The Boolean function g a formula denotes: its truth value under the
\* assignment s, the set of the variables that are true.
RECURSIVE Holds(_, _)
Holds(e, s) ==
  CASE e.op = "T" -> TRUE
    [] e.op = "F" -> FALSE
    [] e.op = "var" -> e.i \in s
    [] e.op = "not" -> ~Holds(e.a, s)
    [] e.op = "and" -> Holds(e.a, s) /\ Holds(e.b, s)
    [] e.op = "or" -> Holds(e.a, s) \/ Holds(e.b, s)
    [] e.op = "xor" -> Holds(e.a, s) # Holds(e.b, s)
    [] e.op = "eq" -> Holds(e.a, s) = Holds(e.b, s)
    [] e.op = "imply" -> Holds(e.a, s) => Holds(e.b, s)

\* The variables a formula mentions.
RECURSIVE Support(_)
Support(e) ==
  CASE e.op \in {"T", "F"} -> {}
    [] e.op = "var" -> {e.i}
    [] e.op = "not" -> Support(e.a)
    [] OTHER -> Support(e.a) \cup Support(e.b)

\* The number of the 2^n assignments of the variables 1..n that satisfy e.
NumSat(e, n) ==
  Cardinality({s \in SUBSET Support(e) : Holds(e, s)})
    * Pow2(n - Cardinality(Support(e)))

\* The assignment with code c: variable i is true iff bit i-1 of c is set.
CodeBit(c, i) == (c \div Pow2(i - 1)) % 2 = 1

\* The minterm of code c over the variables 1..n: true under that one
\* assignment only.
RECURSIVE Minterm(_, _)
Minterm(c, n) ==
  IF n = 0 THEN TT
  ELSE LET l == IF CodeBit(c, n) THEN Var(n) ELSE Not(Var(n))
       IN IF n = 1 THEN l ELSE Bin("and", Minterm(c, n - 1), l)

RECURSIVE Parity(_)
Parity(n) == IF n = 1 THEN Var(1) ELSE Bin("xor", Parity(n - 1), Var(n))

\* The core axiom on (f, g), (x, y):
\* imply(and3(imply(f, x), imply(g, y), eq(f, g)), eq(x, y))
CoreAxiom ==
  Bin("imply",
      Bin("and", Bin("and", Bin("imply", Var(1), Var(3)), Bin("imply", Var(2), Var(4))),
                 Bin("eq", Var(1), Var(2))),
      Bin("eq", Var(3), Var(4)))

\* The six axes of the truth table, P_i at position i + 1.
PSeq == <<P0, P1, P2, P3, P4, P5>>

\* A formula from its descriptor <<kind, i, j>>. The probe <<"at", j, i>> is
\* eq(v_j, P_i): a closure that compares the word it is handed for variable j
\* with the constant P_i, and so returns T exactly when slot j holds P_i.
Formula(d, n) ==
  CASE d[1] = "T" -> TT
    [] d[1] = "F" -> FF
    [] d[1] = "var" -> Var(d[2])
    [] d[1] = "min" -> Minterm(d[2], n)
    [] d[1] = "nmin" -> Not(Minterm(d[2], n))
    [] d[1] = "par" -> Parity(n)
    [] d[1] = "core" -> CoreAxiom
    [] d[1] = "at" -> Bin("eq", Var(d[2]), Const(PSeq[d[3] + 1]))
    [] OTHER -> Bin(d[1], Var(d[2]), Var(d[3]))

\* A closure over a formula: the arguments it is called with are placed
\* between the captured leading and trailing arguments.
Closure(e) == [fm |-> e, pre |-> <<>>, post |-> <<>>]
Apply(fun, vs) == Eval(fun.fm, fun.pre \o vs \o fun.post)

\* ------------------------------------------------------------ counters

\* The value `call` returns is its closure's result (src/src/lib.rs:596-598); the
\* seed scope it opens around the evaluation is modelled by the actions below.
call(res) == res

\* src/src/lib.rs:602-604
count1(f) ==
  count_ones(call(and(Apply(f, <<P0>>), FromHex(<<3>>))))

\* src/src/lib.rs:606-608
count2(f) ==
  count_ones(call(and(Apply(f, <<P0, P1>>), FromHex(<<15>>))))

\* src/src/lib.rs:610-612
count3(f) ==
  count_ones(call(and(Apply(f, <<P0, P1, P2>>), FromHex(<<15,15>>))))

\* src/src/lib.rs:614-616
count4(f) ==
  count_ones(call(and(Apply(f, <<P0, P1, P2, P3>>), FromHex(<<15,15,15,15>>))))

\* src/src/lib.rs:618-620
count5(f) ==
  count_ones(call(and(Apply(f, <<P0, P1, P2, P3, P4>>), FromHex(<<15,15,15,15,15,15,15,15>>))))

\* src/src/lib.rs:622-624
count6(f) ==
  count_ones(call(Apply(f, <<P0, P1, P2, P3, P4, P5>>)))

\* Mutant of count7: the second term evaluates with F again instead of T.
count7_mut(f) ==
  count_ones(call(Apply(f, <<P0, P1, P2, P3, P4, P5, F>>)))
  + count_ones(call(Apply(f, <<P0, P1, P2, P3, P4, P5, F>>)))

\* src/src/lib.rs:626-629
count7(f) ==
  count_ones(call(Apply(f, <<P0, P1, P2, P3, P4, P5, F>>)))
  + count_ones(call(Apply(f, <<P0, P1, P2, P3, P4, P5, T>>)))

\* src/src/lib.rs:631-636
count8(f) ==
  count_ones(call(Apply(f, <<P0, P1, P2, P3, P4, P5, F, F>>)))
  + count_ones(call(Apply(f, <<P0, P1, P2, P3, P4, P5, F, T>>)))
  + count_ones(call(Apply(f, <<P0, P1, P2, P3, P4, P5, T, F>>)))
  + count_ones(call(Apply(f, <<P0, P1, P2, P3, P4, P5, T, T>>)))

\* src/src/lib.rs:638-647
count9(f) ==
  count_ones(call(Apply(f, <<P0, P1, P2, P3, P4, P5, F, F, F>>)))
  + count_ones(call(Apply(f, <<P0, P1, P2, P3, P4, P5, F, F, T>>)))
  + count_ones(call(Apply(f, <<P0, P1, P2, P3, P4, P5, F, T, F>>)))
  + count_ones(call(Apply(f, <<P0, P1, P2, P3, P4, P5, F, T, T>>)))
  + count_ones(call(Apply(f, <<P0, P1, P2, P3, P4, P5, T, F, F>>)))
  + count_ones(call(Apply(f, <<P0, P1, P2, P3, P4, P5, T, F, T>>)))
  + count_ones(call(Apply(f, <<P0, P1, P2, P3, P4, P5, T, T, F>>)))
  + count_ones(call(Apply(f, <<P0, P1, P2, P3, P4, P5, T, T, T>>)))

\* src/src/lib.rs:649-666
count10(f) ==
  count_ones(call(Apply(f, <<P0, P1, P2, P3, P4, P5, F, F, F, F>>)))
  + count_ones(call(Apply(f, <<P0, P1, P2, P3, P4, P5, F, F, F, T>>)))
  + count_ones(call(Apply(f, <<P0, P1, P2, P3, P4, P5, F, F, T, F>>)))
  + count_ones(call(Apply(f, <<P0, P1, P2, P3, P4, P5, F, F, T, T>>)))
  + count_ones(call(Apply(f, <<P0, P1, P2, P3, P4, P5, F, T, F, F>>)))
  + count_ones(call(Apply(f, <<P0, P1, P2, P3, P4, P5, F, T, F, T>>)))
  + count_ones(call(Apply(f, <<P0, P1, P2, P3, P4, P5, F, T, T, F>>)))
  + count_ones(call(Apply(f, <<P0, P1, P2, P3, P4, P5, F, T, T, T>>)))
  + count_ones(call(Apply(f, <<P0, P1, P2, P3, P4, P5, T, F, F, F>>)))
  + count_ones(call(Apply(f, <<P0, P1, P2, P3, P4, P5, T, F, F, T>>)))
  + count_ones(call(Apply(f, <<P0, P1, P2, P3, P4, P5, T, F, T, F>>)))
  + count_ones(call(Apply(f, <<P0, P1, P2, P3, P4, P5, T, F, T, T>>)))
  + count_ones(call(Apply(f, <<P0, P1, P2, P3, P4, P5, T, T, F, F>>)))
  + count_ones(call(Apply(f, <<P0, P1, P2, P3, P4, P5, T, T, F, T>>)))
  + count_ones(call(Apply(f, <<P0, P1, P2, P3, P4, P5, T, T, T, F>>)))
  + count_ones(call(Apply(f, <<P0, P1, P2, P3, P4, P5, T, T, T, T>>)))

\* The fixed-arity counter of arity k (count1..count10).
countK(k, f) ==
  CASE k = 1 -> count1(f)
    [] k = 2 -> count2(f)
    [] k = 3 -> count3(f)
    [] k = 4 -> count4(f)
    [] k = 5 -> count5(f)
    [] k = 6 -> count6(f)
    [] k = 7 -> count7(f)
    [] k = 8 -> count8(f)
    [] k = 9 -> count9(f)
    [] k = 10 -> count10(f)

\* The split variables of iteration i: args[b] = if (i & (1 << b)) != 0 {T} else {F}
\* for the first k slice entries (entry b of the slice is position b + 1 here).
SplitArgs(i, k) == [b \in 1..k |-> IF (i \div Pow2(b - 1)) % 2 = 1 THEN T ELSE F]

\* Mutant of SplitClosure: the recursive call's words are copied to the front
\* of the buffer, the split variables end up behind them.
SplitClosure_mut(fun, split) == [fun EXCEPT !.post = split \o fun.post]

\* The closure a split hands to the recursive call:
\* |vs| { for i in 0..n-k {args[i+k] = vs[i]}; call(|| fun(&args)) }
SplitClosure(fun, split) == [fun EXCEPT !.pre = fun.pre \o split]

RECURSIVE Sum(_, _, _)
Sum(Term(_), lo, hi) ==
  IF lo > hi THEN 0
  ELSE IF lo = hi THEN Term(lo)
  ELSE LET mid == (lo + hi) \div 2
       IN Sum(Term, lo, mid) + Sum(Term, mid + 1, hi)

RECURSIVE countn(_, _)

\* Mutant of countn_fixed: the arm for 2 dispatches to count3.
countn_fixed_mut(n, fun) == countK(IF n = 2 THEN 3 ELSE n, fun)

\* countn for n in 1..10: the fixed-arity counter on |a, b, ...| fun(&[a, b, ...]).
countn_fixed(n, fun) == countK(n, fun)

\* countn for n >= 11: the sum over the assignments of 9 (n >= 19) or 5 split
\* variables of countn on the remaining variables.
countn_split(n, fun) ==
  IF n >= 19
  THEN LET Term(i) == countn(n - 9, SplitClosure(fun, SplitArgs(i, 9)))
       IN Sum(Term, 0, 511)
  ELSE LET Term(i) == countn(n - 5, SplitClosure(fun, SplitArgs(i, 5)))
       IN Sum(Term, 0, 31)

countn(n, fun) ==
  CASE n = 0 -> count_ones(call(Apply(fun, <<>>)))
    [] n \in 1..10 -> countn_fixed(n, fun)
    [] OTHER -> countn_split(n, fun)

\* prove1..prove10: src/src/lib.rs:951-975
proveK(k, f) ==
  CASE k = 1 -> count1(f) = 2
    [] k = 2 -> count2(f) = 4
    [] k = 3 -> count3(f) = 8
    [] k = 4 -> count4(f) = 16
    [] k = 5 -> count5(f) = 32
    [] k = 6 -> count6(f) = 64
    [] k = 7 -> count7(f) = 128
    [] k = 8 -> count8(f) = 256
    [] k = 9 -> count9(f) = 512
    [] k = 10 -> count10(f) = 1024

\* countn(n, f) == 1 << n
proven(n, f) == countn(n, f) = Pow2(n)


\* ------------------------------------------- path-semantical counters

\* The bit patterns of path1_count3..path1_count10, as written in the source.
\* An invocation whose result is counted whole (no `&`) has the mask T.
\* path1_count3: src/src/lib.rs:738-743. One entry per closure invocation:
\* the F-tuple literals, the X-tuple literals and the mask of the counted window.
path1_pat3 == <<
  [fs |-> <<<<0,0,0,0,1,1,1,1>>,
            <<0,0,1,1,0,0,1,1>>>>,
   xs |-> <<<<0,1,0,1,0,1,0,1>>>>,
   mask |-> FromBin(<<1,1,1,1,1,1,1,1>>)] >>

\* path1_count4: src/src/lib.rs:747-753. One entry per closure invocation:
\* the F-tuple literals, the X-tuple literals and the mask of the counted window.
path1_pat4 == <<
  [fs |-> <<<<0,0,0,0,0,0,1,1,1,1,1,1,1,1>>,
            <<0,0,1,1,1,1,0,0,0,0,1,1,1,1>>>>,
   xs |-> <<<<0,1,0,0,1,1,0,0,1,1,0,0,1,1>>,
            <<0,1,0,1,0,1,0,1,0,1,0,1,0,1>>>>,
   mask |-> FromBin(<<1,1,1,1,1,1,1,1,1,1,1,1,1,1>>)] >>

\* path1_count5: src/src/lib.rs:757-764. One entry per closure invocation:
\* the F-tuple literals, the X-tuple literals and the mask of the counted window.
path1_pat5 == <<
  [fs |-> <<<<0,0,0,0,0,0,0,0,0,0,1,1,1,1,1,1,1,1,1,1,1,1,1,1>>,
            <<0,0,0,0,1,1,1,1,1,1,0,0,0,0,0,0,1,1,1,1,1,1,1,1>>,
            <<0,0,1,1,0,0,1,1,1,1,0,0,1,1,1,1,0,0,0,0,1,1,1,1>>>>,
   xs |-> <<<<0,1,0,1,0,1,0,0,1,1,0,1,0,0,1,1,0,0,1,1,0,0,1,1>>,
            <<0,1,0,1,0,1,0,1,0,1,0,1,0,1,0,1,0,1,0,1,0,1,0,1>>>>,
   mask |-> FromBin(<<1,1,1,1,1,1,1,1,1,1,1,1,1,1,1,1,1,1,1,1,1,1,1,1>>)] >>

\* path1_count6: src/src/lib.rs:768-776. One entry per closure invocation:
\* the F-tuple literals, the X-tuple literals and the mask of the counted window.
path1_pat6 == <<
  [fs |-> <<<<0,0,0,0,0,0,0,0,0,0,0,0,0,0,1,1,1,1,1,1,1,1,1,1,1,1,1,1,1,1,1,1,1,1,1,1,1,1,1,1>>,
            <<0,0,0,0,1,1,1,1,1,1,1,1,1,1,0,0,0,0,0,0,0,0,0,0,1,1,1,1,1,1,1,1,1,1,1,1,1,1,1,1>>,
            <<0,0,1,1,0,0,1,1,1,1,1,1,1,1,0,0,1,1,1,1,1,1,1,1,0,0,0,0,0,0,0,0,1,1,1,1,1,1,1,1>>>>,
   xs |-> <<<<0,1,0,1,0,1,0,0,0,0,1,1,1,1,0,1,0,0,0,0,1,1,1,1,0,0,0,0,1,1,1,1,0,0,0,0,1,1,1,1>>,
            <<0,1,0,1,0,1,0,0,1,1,0,0,1,1,0,1,0,0,1,1,0,0,1,1,0,0,1,1,0,0,1,1,0,0,1,1,0,0,1,1>>,
            <<0,1,0,1,0,1,0,1,0,1,0,1,0,1,0,1,0,1,0,1,0,1,0,1,0,1,0,1,0,1,0,1,0,1,0,1,0,1,0,1>>>>,
   mask |-> FromBin(<<1,1,1,1,1,1,1,1,1,1,1,1,1,1,1,1,1,1,1,1,1,1,1,1,1,1,1,1,1,1,1,1,1,1,1,1,1,1,1,1>>)] >>

\* path1_count7: src/src/lib.rs:780-789. One entry per closure invocation:
\* the F-tuple literals, the X-tuple literals and the mask of the counted window.
path1_pat7 == <<
  [fs |-> <<<<0,0,0,0,0,0,0,0,0,0,0,0,0,0,0,0,0,0,0,0,0,0,1,1,1,1,1,1,1,1,1,1,1,1,1,1,1,1,1,1,1,1,1,1,1,1,1,1,1,1,1,1,1,1,1,1,1,1,1,1,1,1>>,
            <<0,0,0,0,0,0,0,0,1,1,1,1,1,1,1,1,1,1,1,1,1,1,0,0,0,0,0,0,0,0,0,0,0,0,0,0,1,1,1,1,1,1,1,1,1,1,1,1,1,1,1,1,1,1,1,1,1,1,1,1,1,1>>,
            <<0,0,0,0,1,1,1,1,0,0,0,0,1,1,1,1,1,1,1,1,1,1,0,0,0,0,1,1,1,1,1,1,1,1,1,1,0,0,0,0,0,0,0,0,0,0,1,1,1,1,1,1,1,1,1,1,1,1,1,1,1,1>>,
            <<0,0,1,1,0,0,1,1,0,0,1,1,0,0,1,1,1,1,1,1,1,1,0,0,1,1,0,0,1,1,1,1,1,1,1,1,0,0,1,1,1,1,1,1,1,1,0,0,0,0,0,0,0,0,1,1,1,1,1,1,1,1>>>>,
   xs |-> <<<<0,1,0,1,0,1,0,1,0,1,0,1,0,1,0,0,0,0,1,1,1,1,0,1,0,1,0,1,0,0,0,0,1,1,1,1,0,1,0,0,0,0,1,1,1,1,0,0,0,0,1,1,1,1,0,0,0,0,1,1,1,1>>,
            <<0,1,0,1,0,1,0,1,0,1,0,1,0,1,0,0,1,1,0,0,1,1,0,1,0,1,0,1,0,0,1,1,0,0,1,1,0,1,0,0,1,1,0,0,1,1,0,0,1,1,0,0,1,1,0,0,1,1,0,0,1,1>>,
            <<0,1,0,1,0,1,0,1,0,1,0,1,0,1,0,1,0,1,0,1,0,1,0,1,0,1,0,1,0,1,0,1,0,1,0,1,0,1,0,1,0,1,0,1,0,1,0,1,0,1,0,1,0,1,0,1,0,1,0,1,0,1>>>>,
   mask |-> FromBin(<<1,1,1,1,1,1,1,1,1,1,1,1,1,1,1,1,1,1,1,1,1,1,1,1,1,1,1,1,1,1,1,1,1,1,1,1,1,1,1,1,1,1,1,1,1,1,1,1,1,1,1,1,1,1,1,1,1,1,1,1,1,1>>)] >>

\* path1_count8: src/src/lib.rs:793-811. One entry per closure invocation:
\* the F-tuple literals, the X-tuple literals and the mask of the counted window.
path1_pat8 == <<
  [fs |-> <<<<0,0,0,0,0,0,0,0,0,0,0,0,0,0,0,0,0,0,0,0,0,0,0,0,0,0,0,0,0,0,1,1,1,1,1,1,1,1,1,1,1,1,1,1,1,1,1,1,1,1,1,1,1,1,1,1,1,1,1,1,1,1,1,1>>,
            <<0,0,0,0,0,0,0,0,1,1,1,1,1,1,1,1,1,1,1,1,1,1,1,1,1,1,1,1,1,1,0,0,0,0,0,0,0,0,0,0,0,0,0,0,0,0,0,0,0,0,0,0,1,1,1,1,1,1,1,1,1,1,1,1>>,
            <<0,0,0,0,1,1,1,1,0,0,0,0,1,1,1,1,1,1,1,1,1,1,1,1,1,1,1,1,1,1,0,0,0,0,1,1,1,1,1,1,1,1,1,1,1,1,1,1,1,1,1,1,0,0,0,0,0,0,0,0,0,0,0,0>>,
            <<0,0,1,1,0,0,1,1,0,0,1,1,0,0,1,1,1,1,1,1,1,1,1,1,1,1,1,1,1,1,0,0,1,1,0,0,1,1,1,1,1,1,1,1,1,1,1,1,1,1,1,1,0,0,1,1,1,1,1,1,1,1,1,1>>>>,
   xs |-> <<<<0,1,0,1,0,1,0,1,0,1,0,1,0,1,0,0,0,0,0,0,0,0,1,1,1,1,1,1,1,1,0,1,0,1,0,1,0,0,0,0,0,0,0,0,1,1,1,1,1,1,1,1,0,1,0,0,0,0,0,0,0,0,1,1>>,
            <<0,1,0,1,0,1,0,1,0,1,0,1,0,1,0,0,0,0,1,1,1,1,0,0,0,0,1,1,1,1,0,1,0,1,0,1,0,0,0,0,1,1,1,1,0,0,0,0,1,1,1,1,0,1,0,0,0,0,1,1,1,1,0,0>>,
            <<0,1,0,1,0,1,0,1,0,1,0,1,0,1,0,0,1,1,0,0,1,1,0,0,1,1,0,0,1,1,0,1,0,1,0,1,0,0,1,1,0,0,1,1,0,0,1,1,0,0,1,1,0,1,0,0,1,1,0,0,1,1,0,0>>,
            <<0,1,0,1,0,1,0,1,0,1,0,1,0,1,0,1,0,1,0,1,0,1,0,1,0,1,0,1,0,1,0,1,0,1,0,1,0,1,0,1,0,1,0,1,0,1,0,1,0,1,0,1,0,1,0,1,0,1,0,1,0,1,0,1>>>>,
   mask |-> T],
  [fs |-> <<<<1,1,1,1,1,1,1,1,1,1,1,1,1,1,1,1,1,1,1,1,1,1,1,1,1,1,1,1,1,1,1,1,1,1,1,1,1,1>>,
            <<1,1,1,1,1,1,1,1,1,1,1,1,1,1,1,1,1,1,1,1,1,1,1,1,1,1,1,1,1,1,1,1,1,1,1,1,1,1>>,
            <<0,0,0,0,0,0,1,1,1,1,1,1,1,1,1,1,1,1,1,1,1,1,1,1,1,1,1,1,1,1,1,1,1,1,1,1,1,1>>,
            <<1,1,1,1,1,1,0,0,0,0,0,0,0,0,0,0,0,0,0,0,0,0,1,1,1,1,1,1,1,1,1,1,1,1,1,1,1,1>>>>,
   xs |-> <<<<1,1,1,1,1,1,0,0,0,0,0,0,0,0,1,1,1,1,1,1,1,1,0,0,0,0,0,0,0,0,1,1,1,1,1,1,1,1>>,
            <<0,0,1,1,1,1,0,0,0,0,1,1,1,1,0,0,0,0,1,1,1,1,0,0,0,0,1,1,1,1,0,0,0,0,1,1,1,1>>,
            <<1,1,0,0,1,1,0,0,1,1,0,0,1,1,0,0,1,1,0,0,1,1,0,0,1,1,0,0,1,1,0,0,1,1,0,0,1,1>>,
            <<0,1,0,1,0,1,0,1,0,1,0,1,0,1,0,1,0,1,0,1,0,1,0,1,0,1,0,1,0,1,0,1,0,1,0,1,0,1>>>>,
   mask |-> FromBin(<<1,1,1,1,1,1,1,1,1,1,1,1,1,1,1,1,1,1,1,1,1,1,1,1,1,1,1,1,1,1,1,1,1,1,1,1,1,1>>)] >>

\* path1_count9: src/src/lib.rs:815-844. One entry per closure invocation:
\* the F-tuple literals, the X-tuple literals and the mask of the counted window.
path1_pat9 == <<
  [fs |-> <<<<0,0,0,0,0,0,0,0,0,0,0,0,0,0,0,0,0,0,0,0,0,0,0,0,0,0,0,0,0,0,0,0,0,0,0,0,0,0,0,0,0,0,0,0,0,0,1,1,1,1,1,1,1,1,1,1,1,1,1,1,1,1,1,1>>,
            <<0,0,0,0,0,0,0,0,0,0,0,0,0,0,0,0,1,1,1,1,1,1,1,1,1,1,1,1,1,1,1,1,1,1,1,1,1,1,1,1,1,1,1,1,1,1,0,0,0,0,0,0,0,0,0,0,0,0,0,0,0,0,0,0>>,
            <<0,0,0,0,0,0,0,0,1,1,1,1,1,1,1,1,0,0,0,0,0,0,0,0,1,1,1,1,1,1,1,1,1,1,1,1,1,1,1,1,1,1,1,1,1,1,0,0,0,0,0,0,0,0,1,1,1,1,1,1,1,1,1,1>>,
            <<0,0,0,0,1,1,1,1,0,0,0,0,1,1,1,1,0,0,0,0,1,1,1,1,0,0,0,0,1,1,1,1,1,1,1,1,1,1,1,1,1,1,1,1,1,1,0,0,0,0,1,1,1,1,0,0,0,0,1,1,1,1,1,1>>,
            <<0,0,1,1,0,0,1,1,0,0,1,1,0,0,1,1,0,0,1,1,0,0,1,1,0,0,1,1,0,0,1,1,1,1,1,1,1,1,1,1,1,1,1,1,1,1,0,0,1,1,0,0,1,1,0,0,1,1,0,0,1,1,1,1>>>>,
   xs |-> <<<<0,1,0,1,0,1,0,1,0,1,0,1,0,1,0,1,0,1,0,1,0,1,0,1,0,1,0,1,0,1,0,0,0,0,0,0,0,0,1,1,1,1,1,1,1,1,0,1,0,1,0,1,0,1,0,1,0,1,0,1,0,0,0,0>>,
            <<0,1,0,1,0,1,0,1,0,1,0,1,0,1,0,1,0,1,0,1,0,1,0,1,0,1,0,1,0,1,0,0,0,0,1,1,1,1,0,0,0,0,1,1,1,1,0,1,0,1,0,1,0,1,0,1,0,1,0,1,0,0,0,0>>,
            <<0,1,0,1,0,1,0,1,0,1,0,1,0,1,0,1,0,1,0,1,0,1,0,1,0,1,0,1,0,1,0,0,1,1,0,0,1,1,0,0,1,1,0,0,1,1,0,1,0,1,0,1,0,1,0,1,0,1,0,1,0,0,1,1>>,
            <<0,1,0,1,0,1,0,1,0,1,0,1,0,1,0,1,0,1,0,1,0,1,0,1,0,1,0,1,0,1,0,1,0,1,0,1,0,1,0,1,0,1,0,1,0,1,0,1,0,1,0,1,0,1,0,1,0,1,0,1,0,1,0,1>>>>,
   mask |-> T],
  [fs |-> <<<<1,1,1,1,1,1,1,1,1,1,1,1,1,1,1,1,1,1,1,1,1,1,1,1,1,1,1,1,1,1,1,1,1,1,1,1,1,1,1,1,1,1,1,1,1,1,1,1,1,1,1,1,1,1,1,1,1,1,1,1,1,1,1,1>>,
            <<0,0,0,0,0,0,0,0,0,0,0,0,1,1,1,1,1,1,1,1,1,1,1,1,1,1,1,1,1,1,1,1,1,1,1,1,1,1,1,1,1,1,1,1,1,1,1,1,1,1,1,1,1,1,1,1,1,1,1,1,1,1,1,1>>,
            <<1,1,1,1,1,1,1,1,1,1,1,1,0,0,0,0,0,0,0,0,0,0,0,0,0,0,0,0,0,0,0,0,0,0,1,1,1,1,1,1,1,1,1,1,1,1,1,1,1,1,1,1,1,1,1,1,1,1,1,1,1,1,1,1>>,
            <<1,1,1,1,1,1,1,1,1,1,1,1,0,0,0,0,1,1,1,1,1,1,1,1,1,1,1,1,1,1,1,1,1,1,0,0,0,0,0,0,0,0,0,0,0,0,0,0,0,0,0,0,1,1,1,1,1,1,1,1,1,1,1,1>>,
            <<1,1,1,1,1,1,1,1,1,1,1,1,0,0,1,1,0,0,1,1,1,1,1,1,1,1,1,1,1,1,1,1,1,1,0,0,1,1,1,1,1,1,1,1,1,1,1,1,1,1,1,1,0,0,0,0,0,0,0,0,0,0,0,0>>>>,
   xs |-> <<<<0,0,0,0,1,1,1,1,1,1,1,1,0,1,0,1,0,1,0,0,0,0,0,0,0,0,1,1,1,1,1,1,1,1,0,1,0,0,0,0,0,0,0,0,1,1,1,1,1,1,1,1,0,0,0,0,0,0,0,0,1,1,1,1>>,
            <<1,1,1,1,0,0,0,0,1,1,1,1,0,1,0,1,0,1,0,0,0,0,1,1,1,1,0,0,0,0,1,1,1,1,0,1,0,0,0,0,1,1,1,1,0,0,0,0,1,1,1,1,0,0,0,0,1,1,1,1,0,0,0,0>>,
            <<0,0,1,1,0,0,1,1,0,0,1,1,0,1,0,1,0,1,0,0,1,1,0,0,1,1,0,0,1,1,0,0,1,1,0,1,0,0,1,1,0,0,1,1,0,0,1,1,0,0,1,1,0,0,1,1,0,0,1,1,0,0,1,1>>,
            <<0,1,0,1,0,1,0,1,0,1,0,1,0,1,0,1,0,1,0,1,0,1,0,1,0,1,0,1,0,1,0,1,0,1,0,1,0,1,0,1,0,1,0,1,0,1,0,1,0,1,0,1,0,1,0,1,0,1,0,1,0,1,0,1>>>>,
   mask |-> T],
  [fs |-> <<<<1,1,1,1,1,1,1,1,1,1,1,1,1,1,1,1,1,1,1,1>>,
            <<1,1,1,1,1,1,1,1,1,1,1,1,1,1,1,1,1,1,1,1>>,
            <<1,1,1,1,1,1,1,1,1,1,1,1,1,1,1,1,1,1,1,1>>,
            <<1,1,1,1,1,1,1,1,1,1,1,1,1,1,1,1,1,1,1,1>>,
            <<0,0,0,0,1,1,1,1,1,1,1,1,1,1,1,1,1,1,1,1>>>>,
   xs |-> <<<<1,1,1,1,0,0,0,0,0,0,0,0,1,1,1,1,1,1,1,1>>,
            <<1,1,1,1,0,0,0,0,1,1,1,1,0,0,0,0,1,1,1,1>>,
            <<0,0,1,1,0,0,1,1,0,0,1,1,0,0,1,1,0,0,1,1>>,
            <<0,1,0,1,0,1,0,1,0,1,0,1,0,1,0,1,0,1,0,1>>>>,
   mask |-> FromBin(<<1,1,1,1,1,1,1,1,1,1,1,1,1,1,1,1,1,1,1,1>>)] >>

\* path1_count10: src/src/lib.rs:848-890. One entry per closure invocation:
\* the F-tuple literals, the X-tuple literals and the mask of the counted window.
path1_pat10 == <<
  [fs |-> <<<<0,0,0,0,0,0,0,0,0,0,0,0,0,0,0,0,0,0,0,0,0,0,0,0,0,0,0,0,0,0,0,0,0,0,0,0,0,0,0,0,0,0,0,0,0,0,0,0,0,0,0,0,0,0,0,0,0,0,0,0,0,0,1,1>>,
            <<0,0,0,0,0,0,0,0,0,0,0,0,0,0,0,0,1,1,1,1,1,1,1,1,1,1,1,1,1,1,1,1,1,1,1,1,1,1,1,1,1,1,1,1,1,1,1,1,1,1,1,1,1,1,1,1,1,1,1,1,1,1,0,0>>,
            <<0,0,0,0,0,0,0,0,1,1,1,1,1,1,1,1,0,0,0,0,0,0,0,0,1,1,1,1,1,1,1,1,1,1,1,1,1,1,1,1,1,1,1,1,1,1,1,1,1,1,1,1,1,1,1,1,1,1,1,1,1,1,0,0>>,
            <<0,0,0,0,1,1,1,1,0,0,0,0,1,1,1,1,0,0,0,0,1,1,1,1,0,0,0,0,1,1,1,1,1,1,1,1,1,1,1,1,1,1,1,1,1,1,1,1,1,1,1,1,1,1,1,1,1,1,1,1,1,1,0,0>>,
            <<0,0,1,1,0,0,1,1,0,0,1,1,0,0,1,1,0,0,1,1,0,0,1,1,0,0,1,1,0,0,1,1,1,1,1,1,1,1,1,1,1,1,1,1,1,1,1,1,1,1,1,1,1,1,1,1,1,1,1,1,1,1,0,0>>>>,
   xs |-> <<<<0,1,0,1,0,1,0,1,0,1,0,1,0,1,0,1,0,1,0,1,0,1,0,1,0,1,0,1,0,1,0,0,0,0,0,0,0,0,0,0,0,0,0,0,0,0,1,1,1,1,1,1,1,1,1,1,1,1,1,1,1,1,0,1>>,
            <<0,1,0,1,0,1,0,1,0,1,0,1,0,1,0,1,0,1,0,1,0,1,0,1,0,1,0,1,0,1,0,0,0,0,0,0,0,0,1,1,1,1,1,1,1,1,0,0,0,0,0,0,0,0,1,1,1,1,1,1,1,1,0,1>>,
            <<0,1,0,1,0,1,0,1,0,1,0,1,0,1,0,1,0,1,0,1,0,1,0,1,0,1,0,1,0,1,0,0,0,0,1,1,1,1,0,0,0,0,1,1,1,1,0,0,0,0,1,1,1,1,0,0,0,0,1,1,1,1,0,1>>,
            <<0,1,0,1,0,1,0,1,0,1,0,1,0,1,0,1,0,1,0,1,0,1,0,1,0,1,0,1,0,1,0,0,1,1,0,0,1,1,0,0,1,1,0,0,1,1,0,0,1,1,0,0,1,1,0,0,1,1,0,0,1,1,0,1>>,
            <<0,1,0,1,0,1,0,1,0,1,0,1,0,1,0,1,0,1,0,1,0,1,0,1,0,1,0,1,0,1,0,1,0,1,0,1,0,1,0,1,0,1,0,1,0,1,0,1,0,1,0,1,0,1,0,1,0,1,0,1,0,1,0,1>>>>,
   mask |-> T],
  [fs |-> <<<<1,1,1,1,1,1,1,1,1,1,1,1,1,1,1,1,1,1,1,1,1,1,1,1,1,1,1,1,1,1,1,1,1,1,1,1,1,1,1,1,1,1,1,1,1,1,1,1,1,1,1,1,1,1,1,1,1,1,1,1,1,1,1,1>>,
            <<0,0,0,0,0,0,0,0,0,0,0,0,0,0,0,0,0,0,0,0,0,0,0,0,0,0,0,0,0,0,0,0,0,0,0,0,0,0,0,0,0,0,0,0,1,1,1,1,1,1,1,1,1,1,1,1,1,1,1,1,1,1,1,1>>,
            <<0,0,0,0,0,0,1,1,1,1,1,1,1,1,1,1,1,1,1,1,1,1,1,1,1,1,1,1,1,1,1,1,1,1,1,1,1,1,1,1,1,1,1,1,0,0,0,0,0,0,0,0,0,0,0,0,0,0,0,0,0,0,0,0>>,
            <<0,0,1,1,1,1,0,0,0,0,1,1,1,1,1,1,1,1,1,1,1,1,1,1,1,1,1,1,1,1,1,1,1,1,1,1,1,1,1,1,1,1,1,1,0,0,0,0,1,1,1,1,1,1,1,1,1,1,1,1,1,1,1,1>>,
            <<1,1,0,0,1,1,0,0,1,1,0,0,1,1,1,1,1,1,1,1,1,1,1,1,1,1,1,1,1,1,1,1,1,1,1,1,1,1,1,1,1,1,1,1,0,0,1,1,0,0,1,1,1,1,1,1,1,1,1,1,1,1,1,1>>>>,
   xs |-> <<<<0,1,0,1,0,1,0,1,0,1,0,1,0,0,0,0,0,0,0,0,0,0,0,0,0,0,0,0,1,1,1,1,1,1,1,1,1,1,1,1,1,1,1,1,0,1,0,1,0,1,0,0,0,0,0,0,0,0,0,0,0,0,0,0>>,
            <<0,1,0,1,0,1,0,1,0,1,0,1,0,0,0,0,0,0,0,0,1,1,1,1,1,1,1,1,0,0,0,0,0,0,0,0,1,1,1,1,1,1,1,1,0,1,0,1,0,1,0,0,0,0,0,0,0,0,1,1,1,1,1,1>>,
            <<0,1,0,1,0,1,0,1,0,1,0,1,0,0,0,0,1,1,1,1,0,0,0,0,1,1,1,1,0,0,0,0,1,1,1,1,0,0,0,0,1,1,1,1,0,1,0,1,0,1,0,0,0,0,1,1,1,1,0,0,0,0,1,1>>,
            <<0,1,0,1,0,1,0,1,0,1,0,1,0,0,1,1,0,0,1,1,0,0,1,1,0,0,1,1,0,0,1,1,0,0,1,1,0,0,1,1,0,0,1,1,0,1,0,1,0,1,0,0,1,1,0,0,1,1,0,0,1,1,0,0>>,
            <<0,1,0,1,0,1,0,1,0,1,0,1,0,1,0,1,0,1,0,1,0,1,0,1,0,1,0,1,0,1,0,1,0,1,0,1,0,1,0,1,0,1,0,1,0,1,0,1,0,1,0,1,0,1,0,1,0,1,0,1,0,1,0,1>>>>,
   mask |-> T],
  [fs |-> <<<<1,1,1,1,1,1,1,1,1,1,1,1,1,1,1,1,1,1,1,1,1,1,1,1,1,1,1,1,1,1,1,1,1,1,1,1,1,1,1,1,1,1,1,1,1,1,1,1,1,1,1,1,1,1,1,1,1,1,1,1,1,1,1,1>>,
            <<1,1,1,1,1,1,1,1,1,1,1,1,1,1,1,1,1,1,1,1,1,1,1,1,1,1,1,1,1,1,1,1,1,1,1,1,1,1,1,1,1,1,1,1,1,1,1,1,1,1,1,1,1,1,1,1,1,1,1,1,1,1,1,1>>,
            <<0,0,0,0,0,0,0,0,0,0,0,0,0,0,0,0,0,0,1,1,1,1,1,1,1,1,1,1,1,1,1,1,1,1,1,1,1,1,1,1,1,1,1,1,1,1,1,1,1,1,1,1,1,1,1,1,1,1,1,1,1,1,1,1>>,
            <<1,1,1,1,1,1,1,1,1,1,1,1,1,1,1,1,1,1,0,0,0,0,0,0,0,0,0,0,0,0,0,0,0,0,0,0,0,0,0,0,0,0,0,0,0,0,0,0,0,0,0,0,1,1,1,1,1,1,1,1,1,1,1,1>>,
            <<1,1,1,1,1,1,1,1,1,1,1,1,1,1,1,1,1,1,0,0,1,1,1,1,1,1,1,1,1,1,1,1,1,1,1,1,1,1,1,1,1,1,1,1,1,1,1,1,1,1,1,1,0,0,0,0,0,0,0,0,0,0,0,0>>>>,
   xs |-> <<<<0,0,1,1,1,1,1,1,1,1,1,1,1,1,1,1,1,1,0,1,0,0,0,0,0,0,0,0,0,0,0,0,0,0,0,0,1,1,1,1,1,1,1,1,1,1,1,1,1,1,1,1,0,0,0,0,0,0,0,0,0,0,0,0>>,
            <<1,1,0,0,0,0,0,0,0,0,1,1,1,1,1,1,1,1,0,1,0,0,0,0,0,0,0,0,1,1,1,1,1,1,1,1,0,0,0,0,0,0,0,0,1,1,1,1,1,1,1,1,0,0,0,0,0,0,0,0,1,1,1,1>>,
            <<1,1,0,0,0,0,1,1,1,1,0,0,0,0,1,1,1,1,0,1,0,0,0,0,1,1,1,1,0,0,0,0,1,1,1,1,0,0,0,0,1,1,1,1,0,0,0,0,1,1,1,1,0,0,0,0,1,1,1,1,0,0,0,0>>,
            <<1,1,0,0,1,1,0,0,1,1,0,0,1,1,0,0,1,1,0,1,0,0,1,1,0,0,1,1,0,0,1,1,0,0,1,1,0,0,1,1,0,0,1,1,0,0,1,1,0,0,1,1,0,0,1,1,0,0,1,1,0,0,1,1>>,
            <<0,1,0,1,0,1,0,1,0,1,0,1,0,1,0,1,0,1,0,1,0,1,0,1,0,1,0,1,0,1,0,1,0,1,0,1,0,1,0,1,0,1,0,1,0,1,0,1,0,1,0,1,0,1,0,1,0,1,0,1,0,1,0,1>>>>,
   mask |-> T],
  [fs |-> <<<<1,1,1,1,1,1,1,1,1,1,1,1,1,1,1,1,1,1,1,1,1,1,1,1,1,1,1,1,1,1,1,1,1,1,1,1,1,1,1,1,1,1,1,1,1,1,1,1,1,1,1,1>>,
            <<1,1,1,1,1,1,1,1,1,1,1,1,1,1,1,1,1,1,1,1,1,1,1,1,1,1,1,1,1,1,1,1,1,1,1,1,1,1,1,1,1,1,1,1,1,1,1,1,1,1,1,1>>,
            <<1,1,1,1,1,1,1,1,1,1,1,1,1,1,1,1,1,1,1,1,1,1,1,1,1,1,1,1,1,1,1,1,1,1,1,1,1,1,1,1,1,1,1,1,1,1,1,1,1,1,1,1>>,
            <<1,1,1,1,1,1,1,1,1,1,1,1,1,1,1,1,1,1,1,1,1,1,1,1,1,1,1,1,1,1,1,1,1,1,1,1,1,1,1,1,1,1,1,1,1,1,1,1,1,1,1,1>>,
            <<0,0,0,0,0,0,0,0,0,0,0,0,0,0,0,0,0,0,0,0,1,1,1,1,1,1,1,1,1,1,1,1,1,1,1,1,1,1,1,1,1,1,1,1,1,1,1,1,1,1,1,1>>>>,
   xs |-> <<<<0,0,0,0,1,1,1,1,1,1,1,1,1,1,1,1,1,1,1,1,0,0,0,0,0,0,0,0,0,0,0,0,0,0,0,0,1,1,1,1,1,1,1,1,1,1,1,1,1,1,1,1>>,
            <<1,1,1,1,0,0,0,0,0,0,0,0,1,1,1,1,1,1,1,1,0,0,0,0,0,0,0,0,1,1,1,1,1,1,1,1,0,0,0,0,0,0,0,0,1,1,1,1,1,1,1,1>>,
            <<1,1,1,1,0,0,0,0,1,1,1,1,0,0,0,0,1,1,1,1,0,0,0,0,1,1,1,1,0,0,0,0,1,1,1,1,0,0,0,0,1,1,1,1,0,0,0,0,1,1,1,1>>,
            <<0,0,1,1,0,0,1,1,0,0,1,1,0,0,1,1,0,0,1,1,0,0,1,1,0,0,1,1,0,0,1,1,0,0,1,1,0,0,1,1,0,0,1,1,0,0,1,1,0,0,1,1>>,
            <<0,1,0,1,0,1,0,1,0,1,0,1,0,1,0,1,0,1,0,1,0,1,0,1,0,1,0,1,0,1,0,1,0,1,0,1,0,1,0,1,0,1,0,1,0,1,0,1,0,1,0,1>>>>,
   mask |-> FromBin(<<1,1,1,1,1,1,1,1,1,1,1,1,1,1,1,1,1,1,1,1,1,1,1,1,1,1,1,1,1,1,1,1,1,1,1,1,1,1,1,1,1,1,1,1,1,1,1,1,1,1,1,1>>)] >>

\* count_ones of the closure on each invocation's patterns within its mask.
RECURSIVE path1_sum(_, _, _)
path1_sum(f, pat, k) ==
  IF k > Len(pat) THEN 0
  ELSE count_ones(and(Apply(f, [i \in 1..Len(pat[k].fs) |-> FromBin(pat[k].fs[i])]
                                 \o [i \in 1..Len(pat[k].xs) |-> FromBin(pat[k].xs[i])]),
                      pat[k].mask))
       + path1_sum(f, pat, k + 1)

\* src/src/lib.rs:726, 732: the same as the normal counters.
path1_count1(f) == count1(f)
path1_count2(f) == count2(f)
\* src/src/lib.rs:738-890
path1_count3(f) == path1_sum(f, path1_pat3, 1)
path1_count4(f) == path1_sum(f, path1_pat4, 1)
path1_count5(f) == path1_sum(f, path1_pat5, 1)
path1_count6(f) == path1_sum(f, path1_pat6, 1)
path1_count7(f) == path1_sum(f, path1_pat7, 1)
path1_count8(f) == path1_sum(f, path1_pat8, 1)
path1_count9(f) == path1_sum(f, path1_pat9, 1)
\* Mutant of path1_count10: the first of the four terms is left out.
path1_count10_mut(f) == path1_sum(f, path1_pat10, 2)
path1_count10(f) == path1_sum(f, path1_pat10, 1)

\* The outcome of a computation: a value, or the panic of an arithmetic
\* operation that overflows in a build with overflow checks.
Ok(v) == [ok |-> TRUE, v |-> v]
Panic == [ok |-> FALSE, v |-> 0]
PanicB == [ok |-> FALSE, v |-> FALSE]

\* The outcomes of an unsigned 64-bit computation whose exact integer value is v
\* and in which some intermediate subtraction underflows iff `under`: a build
\* with overflow checks panics there; a build without them wraps, and its result
\* is v modulo 2^64, which is v for the values 0 <= v < 2^64 met here.
Outcomes(v, under) == IF under THEN {Panic, Ok(v)} ELSE {Ok(v)}

\* vec![w; k]
Vec(w, k) == [i \in 1..k |-> w]

\* 0b01 and 0b11
W01 == FromBin(<<0, 1>>)
W11 == FromBin(<<1, 1>>)

\* The terms of path1_countnm (src/src/lib.rs:924-946). fun takes the slices
\* (fs, xs): the formula's variables 1..f are fs, f+1..f+x are xs.
all_xs_zero(f, x, fun) == countn(f, [fun EXCEPT !.post = Vec(F, x)])
all_xs_one(f, x, fun) == countn(f, [fun EXCEPT !.post = Vec(T, x)])
\* countn(x, |xs| fun(fs, xs)) and the first and last case subtracted from it
\* (xs all 0b01), for fs all T (i = 0) or all T but fs[i-1] = F (i in 1..f).
FsOf(f, i) == [k \in 1..f |-> IF k = i THEN F ELSE T]
fs_count(f, x, fun, i) == countn(x, [fun EXCEPT !.pre = FsOf(f, i)])
\* Mutant of fs_ends: the first and last case are not subtracted.
fs_ends_mut(f, x, fun, i) == 0

fs_ends(f, x, fun, i) ==
  count_ones(call(and(Apply(fun, FsOf(f, i) \o Vec(W01, x)), W11)))

\* The running value of a `+= add[i]; -= sub[i]` loop over i in 1..k, as an
\* exact integer, and whether one of its subtractions underflows.
RECURSIVE Running(_, _, _)
Running(add, sub, k) ==
  IF k = 0 THEN 0 ELSE Running(add, sub, k - 1) + add[k] - sub[k]

RunningUnder(add, sub, k) ==
  \E i \in 1..k : Running(add, sub, i - 1) + add[i] < sub[i]

\* src/src/lib.rs:918-948
path1_countnm(f, x, fun) ==
  LET zero == all_xs_zero(f, x, fun)
      one == all_xs_one(f, x, fun)
      all_fs_one == fs_count(f, x, fun, 0)
      ends == fs_ends(f, x, fun, 0)
      add == [i \in 1..f |-> fs_count(f, x, fun, i)]
      sub == [i \in 1..f |-> fs_ends(f, x, fun, i)]
  IN Outcomes(zero + one + (all_fs_one - ends) + Running(add, sub, f),
              all_fs_one < ends \/ RunningUnder(add, sub, f))

\* src/src/lib.rs:894-913
path1_countn(n, fun) ==
  CASE n = 0 -> {Ok(count_ones(call(Apply(fun, <<>>))))}
    [] n = 1 -> {Ok(path1_count1(fun))}
    [] n = 2 -> {Ok(path1_count2(fun))}
    [] n = 3 -> {Ok(path1_count3(fun))}
    [] n = 4 -> {Ok(path1_count4(fun))}
    [] n = 5 -> {Ok(path1_count5(fun))}
    [] n = 6 -> {Ok(path1_count6(fun))}
    [] n = 7 -> {Ok(path1_count7(fun))}
    [] n = 8 -> {Ok(path1_count8(fun))}
    [] n = 9 -> {Ok(path1_count9(fun))}
    [] n = 10 -> {Ok(path1_count10(fun))}
    [] OTHER -> LET x == n \div 2
                    f == n - x
                IN path1_countnm(f, x, fun)

\* path1_prove1..path1_prove10: src/src/lib.rs:986-1038
path1_proveK(k, f) ==
  CASE k = 1 -> proveK(1, f)
    [] k = 2 -> proveK(2, f)
    [] k = 3 -> path1_count3(f) = 8
    [] k = 4 -> path1_count4(f) = 14
    [] k = 5 -> path1_count5(f) = 24
    [] k = 6 -> path1_count6(f) = 40
    [] k = 7 -> path1_count7(f) = 62
    [] k = 8 -> path1_count8(f) = 102
    [] k = 9 -> path1_count9(f) = 148
    [] k = 10 -> path1_count10(f) = 244

\* 2_u64.pow(1 + f) + (1 + f as u64) * (2_u64.pow(x) - 2)
path1_lennm_value(f, x) == Pow2(1 + f) + (1 + f) * (Pow2(x) - 2)
path1_lennm_under(f, x) == Pow2(x) < 2
path1_lennm(f, x) == Outcomes(path1_lennm_value(f, x), path1_lennm_under(f, x))

\* path1_countnm(f, x, fun) == path1_lennm(f, x)
path1_provenm(f, x, fun) ==
  {IF c.ok /\ l.ok THEN Ok(c.v = l.v) ELSE PanicB :
     c \in path1_countnm(f, x, fun), l \in path1_lennm(f, x)}

\* ------------------------------------------------- the inputs of a run

MaxWeight == 1
MaxN == 12

None == "none"

\* An entry of the ambient seed: absent, or the seed s.
NoSeed == [some |-> FALSE, v |-> 0]
Some(s) == [some |-> TRUE, v |-> s]

\* The codes of the assignments of n variables whose minterms are tried:
\* every assignment for n <= 10, and beyond that the assignments with at
\* most MaxWeight variables true or at most MaxWeight variables false.
RECURSIVE CodeOf(_)
CodeOf(s) == IF s = {} THEN 0 ELSE LET i == CHOOSE i \in s : TRUE
                                   IN Pow2(i - 1) + CodeOf(s \ {i})

Codes(n) ==
  IF n <= 10 THEN 0..(Pow2(n) - 1)
  ELSE {CodeOf(s) : s \in {s \in SUBSET (1..n) : \/ Cardinality(s) <= MaxWeight
                                                  \/ Cardinality(s) >= n - MaxWeight}}

BinOps == {"and", "or", "xor", "eq", "imply"}

\* The formula descriptors tried for n variables.
Formulas(n) ==
  {<<"T", 0, 0>>, <<"F", 0, 0>>}
    \cup {<<"min", c, 0>> : c \in Codes(n)}
    \cup {<<"nmin", c, 0>> : c \in {0, Pow2(n) - 1}}
    \cup {<<"var", i, 0>> : i \in 1..n}
    \cup {<<"par", 0, 0>> : i \in 1..n}
    \cup {d \in {<<o, i, j>> : o \in BinOps, i \in 1..n, j \in 1..n} :
            d[2] < d[3] \/ (d[1] = "imply" /\ d[2] > d[3])}

UserClosure == Closure(Formula(inp.f, inp.n))

NoOut == [countK |-> None, countn |-> None, proveK |-> None, proven |-> None]

\* ------------------------------------- the counters on pure formulas

InitCount ==
  /\ \E n \in 0..10 : \E f \in Formulas(n) : inp = [n |-> n, f |-> f]
  /\ pc = IF inp.n = 0 THEN "countn" ELSE "countK"
  /\ out = NoOut
  /\ cur = NoSeed
  /\ stack = <<>>
  /\ log = <<>>

DoCountK ==
  /\ pc = "countK"
  /\ out' = [out EXCEPT !.countK = countK(inp.n, UserClosure)]
  /\ pc' = "countn"
  /\ UNCHANGED <<inp, cur, stack, log>>

DoCountn ==
  /\ pc = "countn"
  /\ out' = [out EXCEPT !.countn = countn(inp.n, UserClosure)]
  /\ pc' = IF inp.n \in 1..10 THEN "proveK" ELSE "proven"
  /\ UNCHANGED <<inp, cur, stack, log>>

DoProveK ==
  /\ pc = "proveK"
  /\ out' = [out EXCEPT !.proveK = proveK(inp.n, UserClosure)]
  /\ pc' = "proven"
  /\ UNCHANGED <<inp, cur, stack, log>>

DoProven ==
  /\ pc = "proven"
  /\ out' = [out EXCEPT !.proven = proven(inp.n, UserClosure)]
  /\ pc' = "done"
  /\ UNCHANGED <<inp, cur, stack, log>>

NextCount == DoCountK \/ DoCountn \/ DoProveK \/ DoProven

SpecCount == InitCount /\ [][NextCount]_vars

\* The user's formula as a Boolean function, and its number of models.
G == Formula(inp.f, inp.n)
Models == NumSat(G, inp.n)

\* ------------------------------------------ countn beyond ten variables

MaxN9 == 19

\* The arities tried: 11..MaxN (split on 5 variables) and 19..MaxN9 (split on 9).
Arities5 == 11..MaxN
Arities9 == 19..MaxN9

\* The arity of the fixed-arity counter a countn of n variables ends in.
RECURSIVE Base(_)
Base(n) == IF n <= 10 THEN n ELSE IF n >= 19 THEN Base(n - 9) ELSE Base(n - 5)

\* The probes of the slots that follow the split variables.
Probes(n) == {<<"at", n - Base(n) + 1 + i, i>> : i \in 0..5}

\* The variables on either side of the boundaries of the split.
Edge(n) == {1, 5, 6, 9, 10, n} \cap 1..n

FormulasN(n) ==
  IF n < 19
  THEN {<<"T", 0, 0>>, <<"F", 0, 0>>, <<"par", 0, 0>>}
         \cup {<<"min", c, 0>> : c \in Codes(n)}
         \cup {<<"var", i, 0>> : i \in 1..n}
         \cup {<<o, i, j>> : o \in {"and", "imply"}, i \in Edge(n), j \in Edge(n)}
         \cup Probes(n)
  ELSE {<<"T", 0, 0>>, <<"min", Pow2(8), 0>>, <<"min", Pow2(9), 0>>,
        <<"imply", 9, 10>>, <<"and", 1, n>>,
        <<"at", n - Base(n) + 1, 0>>, <<"at", n - Base(n) + 6, 5>>}

InitCountN ==
  /\ \E n \in Arities5 \cup Arities9 : \E f \in FormulasN(n) : inp = [n |-> n, f |-> f]
  /\ pc = "countn"
  /\ out = NoOut
  /\ cur = NoSeed
  /\ stack = <<>>
  /\ log = <<>>

DoCountnN ==
  /\ pc = "countn"
  /\ out' = [out EXCEPT !.countn = countn(inp.n, UserClosure)]
  /\ pc' = "done"
  /\ UNCHANGED <<inp, cur, stack, log>>

NextCountN == DoCountnN

SpecCountN == InitCountN /\ [][NextCountN]_vars

\* ------------------------------------------- the path-semantical runs

MaxF == 3
MaxX == 3
MaxLen == 10

\* The split of k variables that the fixed-arity counter of arity k uses:
\* x = k / 2 value-level and f = k - x function-level variables.
SplitOf(k) == [f |-> k - (k \div 2), x |-> k \div 2]
IsSplit(f, x) == f + x \in 1..10 /\ SplitOf(f + x) = [f |-> f, x |-> x]

PathPairs ==
  {<<f, x>> : f \in 1..MaxF, x \in 1..MaxX}
    \cup {<<SplitOf(k).f, SplitOf(k).x>> : k \in 1..10}

NoOutP == [countnm |-> None, countK |-> None, provenm |-> None, proveK |-> None]

InitPath ==
  /\ \E p \in PathPairs :
       \E f \in Formulas(p[1] + p[2]) \cup
                 (IF p = <<2, 2>> THEN {<<"core", 0, 0>>} ELSE {}) :
         inp = [m |-> p[1], x |-> p[2], n |-> p[1] + p[2], f |-> f]
  /\ pc = "countnm"
  /\ out = NoOutP
  /\ cur = NoSeed
  /\ stack = <<>>
  /\ log = <<>>

DoPathCountnm ==
  /\ pc = "countnm"
  /\ \E r \in path1_countnm(inp.m, inp.x, UserClosure) :
       out' = [out EXCEPT !.countnm = r]
  /\ pc' = IF IsSplit(inp.m, inp.x) THEN "countK" ELSE "provenm"
  /\ UNCHANGED <<inp, cur, stack, log>>

DoPathCountK ==
  /\ pc = "countK"
  /\ \E r \in path1_countn(inp.n, UserClosure) :
       out' = [out EXCEPT !.countK = r]
  /\ pc' = "provenm"
  /\ UNCHANGED <<inp, cur, stack, log>>

DoPathProvenm ==
  /\ pc = "provenm"
  /\ \E r \in path1_provenm(inp.m, inp.x, UserClosure) :
       out' = [out EXCEPT !.provenm = r]
  /\ pc' = IF IsSplit(inp.m, inp.x) THEN "proveK" ELSE "done"
  /\ UNCHANGED <<inp, cur, stack, log>>

DoPathProveK ==
  /\ pc = "proveK"
  /\ out' = [out EXCEPT !.proveK = path1_proveK(inp.n, UserClosure)]
  /\ pc' = "done"
  /\ UNCHANGED <<inp, cur, stack, log>>

NextPath == DoPathCountnm \/ DoPathCountK \/ DoPathProvenm \/ DoPathProveK

SpecPath == InitPath /\ [][NextPath]_vars

\* The path-1 compatible assignments of f function-level variables (1..f) and
\* x value-level variables (f+1..f+x), each as the set of its true variables:
\* the value-level variables all equal, or at most one function-level
\* variable false.
Compat(f, x) ==
  {s \in SUBSET (1..(f + x)) :
     \/ s \cap ((f + 1)..(f + x)) \in {{}, (f + 1)..(f + x)}
     \/ Cardinality((1..f) \ s) <= 1}

CompatOf == [p \in PathPairs |-> Compat(p[1], p[2])]

PathModels == Cardinality({s \in CompatOf[<<inp.m, inp.x>>] : Holds(G, s)})

\* L(m, n) = 2^(m+1) + (m+1) * (2^n - 2)
L(m, n) == Pow2(m + 1) + (m + 1) * (Pow2(n) - 2)

\* ------------------------------------------------ path1_lennm alone

InitLen ==
  /\ \E m \in 0..MaxLen, x \in 0..MaxLen : inp = [m |-> m, x |-> x]
  /\ pc = "lennm"
  /\ out = None
  /\ cur = NoSeed
  /\ stack = <<>>
  /\ log = <<>>

DoLennm ==
  /\ pc = "lennm"
  /\ \E r \in path1_lennm(inp.m, inp.x) : out' = r
  /\ pc' = "done"
  /\ UNCHANGED <<inp, cur, stack, log>>

NextLen == DoLennm

SpecLen == InitLen /\ [][NextLen]_vars

\* ------------------------------------------------- the ambient seed

NumSeeds == 2
MaxSeedN == 11

\* The values rand::random::<u64>() may draw.
Seeds == 1..NumSeeds

\* CurrentGuard::new(&mut r): r becomes the ambient seed, and the guard keeps
\* the entry it replaces.
new_guard(c, r) == [r |-> r, old |-> c]

\* Mutant of drop_guard: a scope that ends without putting back the entry it
\* replaced.
drop_guard_mut(c, g) == c

\* drop(guard): the entry the guard replaced is the ambient seed again (none,
\* if there was none).
drop_guard(c, g) == g.old

\* Mutant of unwind_guard: a guard that is not dropped when a panic unwinds
\* its frame leaves its seed installed.
unwind_guard_mut(c, g) == c

\* The guard of a frame that a panic unwinds is dropped like any local.
unwind_guard(c, g) == drop_guard(c, g)

\* The number of evaluations of the user closure a counter of n variables
\* makes, and the number of `call` scopes around each: the fixed-arity counter
\* and one more for every split of countn.
RECURSIVE Evals(_)
Evals(n) ==
  IF n <= 6 THEN 1
  ELSE IF n <= 10 THEN Pow2(n - 6)
  ELSE IF n >= 19 THEN 512 * Evals(n - 9)
  ELSE 32 * Evals(n - 5)

RECURSIVE Depth(_)
Depth(n) ==
  IF n <= 10 THEN 1
  ELSE IF n >= 19 THEN 1 + Depth(n - 9)
  ELSE 1 + Depth(n - 5)

InitSeed ==
  /\ \E o \in {"countK", "countn"} :
       \E n \in (IF o = "countK" THEN 1..10 ELSE 0..MaxSeedN) :
         \E a \in {NoSeed} \cup {Some(s) : s \in Seeds} :
           inp = [op |-> o, n |-> n, ambient |-> a]
  /\ pc = "enter"
  /\ out = None
  /\ cur = inp.ambient
  /\ stack = <<>>
  /\ log = [evals |-> 0, seen |-> {}]

\* call: let mut r = rand::random::<u64>(); let guard = CurrentGuard::new(&mut r);
CallEnter ==
  /\ pc = "enter"
  /\ \E r \in Seeds :
       /\ stack' = Append(stack, new_guard(cur, r))
       /\ cur' = Some(r)
  /\ pc' = IF Len(stack') = Depth(inp.n) THEN "eval" ELSE "enter"
  /\ UNCHANGED <<inp, out, log>>

\* call: let res = fun(); the user closure returns. It may have read the
\* ambient seed (qubit).
CallEval ==
  /\ pc = "eval"
  /\ log' = [log EXCEPT !.seen = @ \cup {cur}]
  /\ pc' = "exit"
  /\ UNCHANGED <<inp, out, cur, stack>>

\* call: let res = fun(); the user closure panics.
CallPanic ==
  /\ pc = "eval"
  /\ log' = [log EXCEPT !.seen = @ \cup {cur}]
  /\ pc' = "unwind"
  /\ UNCHANGED <<inp, out, cur, stack>>

\* call: drop(guard); res, for the innermost scope still open. When the last
\* one is closed the evaluation is over, and the counter goes on to its next
\* one or returns.
CallExit ==
  /\ pc = "exit"
  /\ cur' = drop_guard(cur, stack[Len(stack)])
  /\ stack' = SubSeq(stack, 1, Len(stack) - 1)
  /\ log' = IF stack' = <<>> THEN [log EXCEPT !.evals = @ + 1] ELSE log
  /\ pc' = IF stack' # <<>> THEN "exit"
           ELSE IF log'.evals = Evals(inp.n) THEN "returned" ELSE "enter"
  /\ UNCHANGED <<inp, out>>

\* The panic unwinds the innermost `call` frame still open; past the last
\* one it leaves the counter.
CallUnwind ==
  /\ pc = "unwind"
  /\ cur' = unwind_guard(cur, stack[Len(stack)])
  /\ stack' = SubSeq(stack, 1, Len(stack) - 1)
  /\ pc' = IF stack' # <<>> THEN "unwind" ELSE "aborted"
  /\ UNCHANGED <<inp, out, log>>

Next == CallEnter \/ CallEval \/ CallPanic \/ CallExit \/ CallUnwind

Spec == InitSeed /\ [][Next]_vars

\* ------------------------------------------- measuring with the seed
\* src/src/lib.rs:539-591

MaxTrials == 3
MaxAmp == 3

\* impl Observable for bool
max_energy_bool_mut == FALSE
max_energy_bool == TRUE
min_energy_bool_mut(x, y) == x \/ y
min_energy_bool(x, y) == x /\ y

\* A u32, as its two 16-bit halves <<high, low>>.
u32(v) == <<v \div 65536, v % 65536>>

\* impl Observable for u32
max_energy_u32 == <<65535, 65535>>
min_energy_u32_mut(x, y) ==
  IF x[1] < y[1] \/ (x[1] = y[1] /\ x[2] <= y[2]) THEN y ELSE x
min_energy_u32(x, y) ==
  IF x[1] < y[1] \/ (x[1] = y[1] /\ x[2] <= y[2]) THEN x ELSE y

max_energy(o) == IF o = "bool" THEN max_energy_bool ELSE max_energy_u32
min_energy(o, x, y) ==
  IF o = "bool" THEN min_energy_bool(x, y) ELSE min_energy_u32(x, y)

\* The closures measured: |a| eq(qual(a, a), qual(a, a)), |a| qual(a, a),
\* |a, b| eq(qual(a, b), qual(b, a)),
\* |a, b, c| imply(and(qual(a, b), qual(b, c)), qual(a, c)), |a| T, |a| F.
QFormulas == {"qq", "q", "sym", "trans", "T", "F"}

QArity(d) == CASE d = "sym" -> 2 [] d = "trans" -> 3 [] OTHER -> 1

QFormula(d, c, g) ==
  CASE d = "qq" -> Bin("eq", Qual(Var(1), Var(1), c, g), Qual(Var(1), Var(1), c, g))
    [] d = "q" -> Qual(Var(1), Var(1), c, g)
    [] d = "sym" -> Bin("eq", Qual(Var(1), Var(2), c, g), Qual(Var(2), Var(1), c, g))
    [] d = "trans" -> Bin("imply", Bin("and", Qual(Var(1), Var(2), c, g),
                                              Qual(Var(2), Var(3), c, g)),
                                   Qual(Var(1), Var(3), c, g))
    [] d = "T" -> TT
    [] d = "F" -> FF

\* The words a closure can hand to qubit: the arguments the counter passes.
QArgs(d) == IF d \in {"T", "F"} THEN {} ELSE {PSeq[i] : i \in 1..QArity(d)}

\* The words tried as arguments, and the words the generator may give.
QWords == {F, P0, P1, T}
RandWords == {F, P0, T}

\* The words amplify can hand to qubit, starting from a, and the words the
\* iterates of qubit are taken at.
AmpArgs(a) == {or(a, u) : u \in RandWords} \cup RandWords

\* The generator seeds a ^ r of the arguments under the seeds.
Keys(args, seeds) == {xor(x, SeedWord(s)) : x \in args, s \in seeds}

\* The generators tried on a set of keys: every function into RandWords on
\* up to five keys, and beyond that the functions constant but for one key.
GenFns(keys) ==
  IF Cardinality(keys) <= 5 THEN [keys -> RandWords]
  ELSE {[k \in keys |-> IF k = k0 THEN w1 ELSE w2] :
          k0 \in keys, w1 \in RandWords, w2 \in RandWords}

\* The closure fun of measure(n, fun): || proveK(f) for bool, || countK(f)
\* for u32, evaluated while c is the ambient seed.
measured(o, d, c, g) ==
  IF o = "bool" THEN proveK(QArity(d), Closure(QFormula(d, c, g)))
  ELSE u32(countK(QArity(d), Closure(QFormula(d, c, g))))

InitQ ==
  /\ \/ \E o \in {"bool", "u32"}, n \in 0..MaxTrials, d \in QFormulas :
          \E g \in GenFns(Keys(QArgs(d), Seeds)) :
            /\ inp = [op |-> "measure", obs |-> o, n |-> n, f |-> d, a |-> F, b |-> F, g |-> g]
            /\ cur = NoSeed
            /\ out = [v |-> max_energy(o), ws |-> <<>>]
     \/ \E a \in QWords, b \in QWords, r \in Seeds :
          \E g \in GenFns(Keys({a, b}, {r})) :
            /\ inp = [op |-> "qual", obs |-> "bool", n |-> 0, f |-> "T", a |-> a, b |-> b, g |-> g]
            /\ cur = Some(r)
            /\ out = [v |-> TRUE, ws |-> <<>>]
     \/ \E n \in 0..MaxAmp, a \in QWords, r \in Seeds :
          \E g \in GenFns(Keys(AmpArgs(a), {r})) :
            /\ inp = [op |-> "amplify", obs |-> "bool", n |-> n, f |-> "T", a |-> a, b |-> F, g |-> g]
            /\ cur = Some(r)
            /\ out = [v |-> TRUE, ws |-> <<>>]
  /\ pc = inp.op
  /\ stack = <<>>
  /\ log = [calls |-> 0, res |-> <<>>, seeds |-> <<>>]

\* measure, one turn of the loop: b = b.min_energy(fun()). The counter inside
\* fun draws a seed r and installs it around its one evaluation of the closure.
MeasureTrial ==
  /\ pc = "measure"
  /\ log.calls < inp.n
  /\ \E r \in Seeds :
       LET guard == new_guard(cur, r)
           res == measured(inp.obs, inp.f, Some(r), inp.g)
       IN /\ out' = [out EXCEPT !.v = min_energy(inp.obs, @, res)]
          /\ log' = [calls |-> log.calls + 1, res |-> Append(log.res, res),
                     seeds |-> Append(log.seeds, r)]
          /\ cur' = drop_guard(Some(r), guard)
  /\ UNCHANGED <<pc, inp, stack>>

\* measure: the loop is over, b is returned.
MeasureReturn ==
  /\ pc = "measure"
  /\ log.calls = inp.n
  /\ pc' = "done"
  /\ UNCHANGED <<inp, out, cur, stack, log>>

\* qual(a, b) and qual(b, a), under the installed seed.
DoQual ==
  /\ pc = "qual"
  /\ out' = [out EXCEPT !.ws = <<qual(inp.a, inp.b, cur, inp.g),
                                  qual(inp.b, inp.a, cur, inp.g)>>]
  /\ pc' = "done"
  /\ UNCHANGED <<inp, cur, stack, log>>

\* amplify(0, a), ..., amplify(n + 1, a), under the installed seed.
DoAmplify ==
  /\ pc = "amplify"
  /\ out' = [out EXCEPT !.ws = [k \in 1..(inp.n + 2) |-> amplify(k - 1, inp.a, cur, inp.g)]]
  /\ pc' = "done"
  /\ UNCHANGED <<inp, cur, stack, log>>

NextQ == MeasureTrial \/ MeasureReturn \/ DoQual \/ DoAmplify

SpecQ == InitQ /\ [][NextQ]_vars

\* ------------------------------------------------- logical systems
\* src/src/lib.rs:1440-1555

MaxSysN == 3

\* src/src/lib.rs:1134
and3(a, b, c) == and(and(a, b), c)
And3(a, b, c) == Bin("and", Bin("and", a, b), c)

\* A logical system of n words: the unit system (), a base system with core
\* rules, a system extending an inner one by extend rules, or a tuple of
\* systems. Its rules are formulas of its words: construct(vs) makes word i of
\* the system from vs[i - 1].
Unit == [kind |-> "unit", n |-> 0]
BaseSys(n, c) == [kind |-> "base", n |-> n, core |-> c]
ExtSys(n, c, e, i) == [kind |-> "ext", n |-> n, core |-> c, ext |-> e, inner |-> i]
TupleSys(n, cs) == [kind |-> "tuple", n |-> n, comps |-> cs]

\* CoreRules::core_rules: T for (), the conjunction of the components' core
\* rules for a tuple (and, and3, ...).
RECURSIVE core_rules(_)
core_rules(s) ==
  CASE s.kind = "unit" -> TT
    [] s.kind = "tuple" ->
         IF Len(s.comps) = 2
         THEN Bin("and", core_rules(s.comps[1]), core_rules(s.comps[2]))
         ELSE And3(core_rules(s.comps[1]), core_rules(s.comps[2]), core_rules(s.comps[3]))
    [] OTHER -> Formula(s.core, s.n)

\* ExtendRules::extend_rules and inner: a base system and a tuple extend ()
\* by T.
extend_rules(s) == IF s.kind = "ext" THEN Formula(s.ext, s.n) ELSE TT
inner(s) == IF s.kind = "ext" THEN s.inner ELSE Unit

\* ExtendRules::full_rules: and3(core_rules, extend_rules(inner),
\* inner.full_rules); the full rules of () are T.
RECURSIVE full_rules(_)
full_rules(s) ==
  IF s.kind = "unit" THEN TT
  ELSE And3(core_rules(s), extend_rules(s), full_rules(inner(s)))

\* impl Prove for T: count(f) = countn(n, |vs| imply(v.full_rules(), f(v)))
prove_count(sys, f) ==
  countn(sys.n, Closure(Bin("imply", full_rules(sys), f)))

\* impl Prove for T: prove(f) = (count(f) == 1 << n)
prove(sys, f) == prove_count(sys, f) = Pow2(sys.n)

\* Option<f64>: None, or Some(num as f64 / den as f64), kept as the two
\* integers. A negative integer stands for its wrap 2^64 + v.
NoneP == [some |-> FALSE, num |-> 0, den |-> 0]
SomeP(num, den) == [some |-> TRUE, num |-> num, den |-> den]
OkP(v) == [ok |-> TRUE, v |-> v]
PanicP == [ok |-> FALSE, v |-> NoneP]

\* Mutant of prob: the cases where the rules fail are not taken off count(f).
prob_mut(sys, f) ==
  LET fa == prove_count(sys, FF)
      tr == prove_count(sys, TT)
      full == tr - fa
  IN {OkP(IF full = 0 THEN NoneP ELSE SomeP(prove_count(sys, f), full))}

\* Prove::prob. Each of the two subtractions panics on underflow in a build
\* that checks overflow and wraps otherwise.
prob(sys, f) ==
  LET fa == prove_count(sys, FF)
      tr == prove_count(sys, TT)
      full == tr - fa
      cf == prove_count(sys, f)
      under == tr < fa \/ (full # 0 /\ cf < fa)
      v == IF full = 0 THEN NoneP ELSE SomeP(cf - fa, full)
  IN IF under THEN {PanicP, OkP(v)} ELSE {OkP(v)}

\* Mutant of prob_imply: undefined when the rules have no solution, as prob.
prob_imply_mut(sys, a, b) ==
  LET fa == prove_count(sys, FF)
      full == prove_count(sys, TT) - fa
      count_a == prove_count(sys, a) - fa
      cab == prove_count(sys, Bin("and", a, b))
  IN {OkP(IF full = 0 THEN NoneP ELSE SomeP(cab - fa, count_a))}

\* Prove::prob_imply
prob_imply(sys, a, b) ==
  LET fa == prove_count(sys, FF)
      ca == prove_count(sys, a)
      count_a == ca - fa
      cab == prove_count(sys, Bin("and", a, b))
      under == ca < fa \/ (count_a # 0 /\ cab < fa)
      v == IF count_a = 0 THEN NoneP ELSE SomeP(cab - fa, count_a)
  IN IF under THEN {PanicP, OkP(v)} ELSE {OkP(v)}

\* The formulas tried as rules and as statements of a system of n words.
SysFormulas(n) ==
  {<<"T", 0, 0>>, <<"F", 0, 0>>}
    \cup {<<"var", i, 0>> : i \in 1..n}
    \cup {<<"min", c, 0>> : c \in 0..(Pow2(n) - 1)}
    \cup {<<"nmin", 0, 0>>}
    \cup {<<o, 1, 2>> : o \in IF n >= 2 THEN {"imply", "xor"} ELSE {}}

InitProb ==
  /\ \E n \in 0..MaxSysN :
       \E c \in SysFormulas(n), a \in SysFormulas(n), b \in SysFormulas(n) :
         \/ inp = [op |-> "prob", kind |-> "base", n |-> n, core |-> c, a |-> a, b |-> a]
         \/ inp = [op |-> "prob_imply", kind |-> "base", n |-> n, core |-> c, a |-> a, b |-> b]
  /\ pc = inp.op
  /\ out = OkP(NoneP)
  /\ cur = NoSeed
  /\ stack = <<>>
  /\ log = <<>>

DoProb ==
  /\ pc = "prob"
  /\ out' \in prob(inp, Formula(inp.a, inp.n))
  /\ pc' = "done"
  /\ UNCHANGED <<inp, cur, stack, log>>

DoProbImply ==
  /\ pc = "prob_imply"
  /\ out' \in prob_imply(inp, Formula(inp.a, inp.n), Formula(inp.b, inp.n))
  /\ pc' = "done"
  /\ UNCHANGED <<inp, cur, stack, log>>

NextProb == DoProb \/ DoProbImply

SpecProb == InitProb /\ [][NextProb]_vars

\* ------------------------------------------- proving in a system
\* src/src/lib.rs:1512-1555, 1557-1565, 1710-1721

\* The rules tried in nested systems and in the components of tuples.
Rules(n) == {<<"T", 0, 0>>, <<"var", 1, 0>>, <<"var", n, 0>>,
             <<"imply", 1, 2>>, <<"xor", 1, 2>>}
Rules2 == {<<"T", 0, 0>>, <<"imply", 1, 2>>}

InitSys ==
  /\ \/ \E d \in {<<"T", 0, 0>>, <<"F", 0, 0>>} : inp = [sys |-> Unit, f |-> d]
     \/ \E n \in 1..MaxSysN : \E c \in SysFormulas(n), d \in SysFormulas(n) :
          inp = [sys |-> BaseSys(n, c), f |-> d]
     \/ \E n \in 2..MaxSysN : \E c \in Rules(n), e \in Rules(n), c2 \in Rules(n), d \in SysFormulas(n) :
          inp = [sys |-> ExtSys(n, c, e, BaseSys(n, c2)), f |-> d]
     \/ \E n \in 2..MaxSysN : \E c \in Rules2, e \in Rules(n), e2 \in Rules(n), c3 \in Rules2, d \in SysFormulas(n) :
          inp = [sys |-> ExtSys(n, c, e, ExtSys(n, <<"T", 0, 0>>, e2, BaseSys(n, c3))), f |-> d]
     \/ \E n \in 2..MaxSysN : \E c \in Rules(n), c2 \in Rules(n), d \in SysFormulas(n) :
          inp = [sys |-> TupleSys(n, <<BaseSys(n, c), BaseSys(n, c2)>>), f |-> d]
     \/ \E n \in 2..MaxSysN : \E c \in Rules2, e \in Rules(n), c2 \in Rules(n), c3 \in Rules2, d \in SysFormulas(n) :
          \/ inp = [sys |-> TupleSys(n, <<ExtSys(n, c, e, BaseSys(n, c3)), BaseSys(n, c2)>>), f |-> d]
          \/ inp = [sys |-> TupleSys(n, <<BaseSys(n, c2), BaseSys(n, c), ExtSys(n, c3, e, BaseSys(n, c))>>), f |-> d]
  /\ pc = "prove"
  /\ out = [prove |-> FALSE, rules |-> F]
  /\ cur = NoSeed
  /\ stack = <<>>
  /\ log = <<>>

\* Prove::prove(f), and the word full_rules gives on the axes P0.. of the
\* system's words (its columns 0..2^n - 1).
DoProve ==
  /\ pc = "prove"
  /\ out' = [prove |-> prove(inp.sys, Formula(inp.f, inp.sys.n)),
             rules |-> and(Eval(full_rules(inp.sys), SubSeq(PSeq, 1, inp.sys.n)),
                           0..(Pow2(inp.sys.n) - 1))]
  /\ pc' = "done"
  /\ UNCHANGED <<inp, cur, stack, log>>

NextSys == DoProve

SpecSys == InitSys /\ [][NextSys]_vars

\* ------------------------------------------------- derived construct
\* src/pocket_prover-derive/src/lib.rs:63-145, src/src/lib.rs:1808-1843

MaxFields == 3

\* A type that implements Construct: the word u64, the unit (), a struct
\* deriving Construct with its fields in declaration order, or a tuple.
WordT == [k |-> "w", fs |-> <<>>]
UnitT == [k |-> "unit", fs |-> <<>>]
StructT(fs) == [k |-> "struct", fs |-> fs]
TupleT(fs) == [k |-> "tuple", fs |-> fs]

\* Construct::n: size_of::<Self>() / size_of::<u64>(), the number of words.
RECURSIVE type_n(_)
type_n(ty) ==
  IF ty.k = "w" THEN 1
  ELSE IF ty.fs = <<>> THEN 0
  ELSE type_n(ty.fs[Len(ty.fs)]) + type_n([ty EXCEPT !.fs = SubSeq(ty.fs, 1, Len(ty.fs) - 1)])

\* impl_construct, first loop: the indices of the fields that are not u64,
\* in order (field j of these gets `let n<j> = <Ty as Construct>::n();`), and
\* for a u64 field the number of such fields before it (ns).
Nested(fs, upto) == {j \in 1..upto : fs[j].k # "w"}
Words(fs, upto) == {j \in 1..upto : fs[j].k = "w"}
NthNested(fs, i) == CHOOSE j \in Nested(fs, Len(fs)) : Cardinality(Nested(fs, j)) = i

\* impl_construct, second loop: the slot of the u64 field at position j,
\* vs[n<ns - 1> + i] where i counts the u64 fields before it and ns the other
\* fields before it (vs[i] if there are none).
derive_slot(fs, j) ==
  LET i == Cardinality(Words(fs, j - 1))
      ns == Cardinality(Nested(fs, j - 1))
  IN IF ns # 0 THEN type_n(fs[NthNested(fs, ns)]) + i ELSE i

\* The running offset of component j of a tuple: n0, n1 = n(T1) + n0, ...
RECURSIVE tuple_offset(_, _)
tuple_offset(fs, j) ==
  IF j = 1 THEN 0 ELSE type_n(fs[j - 1]) + tuple_offset(fs, j - 1)

\* construct(vs), vs starting at slot off of the caller's slice: the slots
\* read into the leaf words, in declaration order. A struct field that is not
\* u64 is built by Construct::construct(vs) from the same slice; component j
\* of a tuple from &vs[n<j-1>..].
RECURSIVE construct(_, _)
RECURSIVE construct_fields(_, _, _)
construct_fields(ty, off, j) ==
  IF j > Len(ty.fs) THEN <<>>
  ELSE (IF ty.k = "tuple" THEN construct(ty.fs[j], off + tuple_offset(ty.fs, j))
        ELSE IF ty.fs[j].k = "w" THEN <<off + derive_slot(ty.fs, j)>>
        ELSE construct(ty.fs[j], off))
       \o construct_fields(ty, off, j + 1)
construct(ty, off) ==
  IF ty.k = "w" THEN <<off>> ELSE construct_fields(ty, off, 1)

\* The field types tried, and the types built of them.
Foo == StructT(<<WordT, WordT>>)
FieldTypes == {WordT, UnitT, Foo, StructT(<<WordT>>)}
FieldSeqs == UNION {[1..l -> FieldTypes] : l \in 1..MaxFields}
Bar(ty) == StructT(<<ty, WordT, WordT>>)

InitConstruct ==
  /\ \/ \E fs \in FieldSeqs : inp = StructT(fs) \/ inp = TupleT(fs)
     \/ \E fs \in FieldSeqs : inp = Bar(StructT(fs)) \/ inp = Bar(Bar(StructT(fs)))
  /\ pc = "construct"
  /\ out = <<>>
  /\ cur = NoSeed
  /\ stack = <<>>
  /\ log = <<>>

\* construct(vs) on a slice of n() slots.
DoConstruct ==
  /\ pc = "construct"
  /\ out' = construct(inp, 0)
  /\ pc' = "done"
  /\ UNCHANGED <<inp, cur, stack, log>>

NextConstruct == DoConstruct

SpecConstruct == InitConstruct /\ [][NextConstruct]_vars

\* -------------------------------------------------------- quantifiers
\* src/src/lib.rs:1367-1411

\* u8::MAX
U8Max == 255

\* Option<E>
NoneE == [some |-> FALSE, v |-> 0]
SomeE(v) == [some |-> TRUE, v |-> v]

\* The predicates of one argument, numbered in the order of Enumerable for
\* Pred1: false_1, not, id, true_1.
Pred1s == 0..3

\* Enumerable::start
enum_start(ty) == 0

\* Enumerable::inc: for Pred1 the next predicate, None after true_1; for u8
\* checked_add(1).
enum_inc(ty, v) ==
  IF ty = "Pred1" THEN (IF v = 3 THEN NoneE ELSE SomeE(v + 1))
  ELSE (IF v + 1 > U8Max THEN NoneE ELSE SomeE(v + 1))

\* The values of an enumerable type.
EnumValues(ty) == IF ty = "Pred1" THEN Pred1s ELSE 0..U8Max

\* The u8 values at which the functions tried differ from their default.
EnumMarks == {0, 1, 128, 255}

\* The functions f tried: every function into RandWords on Pred1; on u8 the
\* functions that take one word at one marked value and another elsewhere,
\* and |x| prop(x > 5).
EnumFns(ty) ==
  IF ty = "Pred1" THEN [Pred1s -> RandWords]
  ELSE {[v \in 0..U8Max |-> IF v = k THEN w1 ELSE w2] :
          k \in EnumMarks, w1 \in RandWords, w2 \in RandWords}
       \cup {[v \in 0..U8Max |-> IF v > 5 THEN T ELSE F]}

InitEnum ==
  /\ \E o \in {"any", "all"}, ty \in {"Pred1", "u8"} :
       \E f \in EnumFns(ty) : inp = [op |-> o, ty |-> ty, f |-> f]
  /\ pc = inp.op
  /\ out = [val |-> enum_start(inp.ty), ret |-> F]
  /\ log = <<>>
  /\ cur = NoSeed
  /\ stack = <<>>

\* any, one turn of `while let Some(new_val) = E::inc(&val)`:
\* if f(new_val) != F {return T}; val = new_val; and F after the loop.
AnyStep ==
  /\ pc = "any"
  /\ LET new_val == enum_inc(inp.ty, out.val)
     IN IF ~new_val.some
        THEN /\ out' = [out EXCEPT !.ret = F]
             /\ pc' = "done"
             /\ log' = log
        ELSE /\ log' = Append(log, new_val.v)
             /\ IF inp.f[new_val.v] # F
                THEN out' = [out EXCEPT !.ret = T] /\ pc' = "done"
                ELSE out' = [out EXCEPT !.val = new_val.v] /\ pc' = pc
  /\ UNCHANGED <<inp, cur, stack>>

\* all, one turn of the loop: if f(new_val) != T {return F}; val = new_val;
\* and T after the loop.
AllStep ==
  /\ pc = "all"
  /\ LET new_val == enum_inc(inp.ty, out.val)
     IN IF ~new_val.some
        THEN /\ out' = [out EXCEPT !.ret = T]
             /\ pc' = "done"
             /\ log' = log
        ELSE /\ log' = Append(log, new_val.v)
             /\ IF inp.f[new_val.v] # T
                THEN out' = [out EXCEPT !.ret = F] /\ pc' = "done"
                ELSE out' = [out EXCEPT !.val = new_val.v] /\ pc' = pc
  /\ UNCHANGED <<inp, cur, stack>>

NextEnum == AnyStep \/ AllStep

SpecEnum == InitEnum /\ [][NextEnum]_vars

\* ------------------------------------------------- chains of arguments
\* src/src/lib.rs:1136-1360 (functions), 178-296 (macros). The fixed-arity
\* functions are written as in the source.
MaxArgs == 12

\* src/src/lib.rs:1136-1136
and4(a, b, c, d) ==
  and(and(a, b), and(c, d))
\* src/src/lib.rs:1138-1138
and5(a, b, c, d, e) ==
  and(and(a, b), and3(c, d, e))
\* src/src/lib.rs:1140-1142
and6(a, b, c, d, e, f) ==
  and(and3(a, b, c), and3(d, e, f))
\* src/src/lib.rs:1144-1146
and7(a, b, c, d, e, f, g) ==
  and(and4(a, b, c, d), and3(e, f, g))
\* src/src/lib.rs:1148-1150
and8(a, b, c, d, e, f, g, h) ==
  and(and4(a, b, c, d), and4(e, f, g, h))
\* src/src/lib.rs:1152-1154
and9(a, b, c, d, e, f, g, h, i) ==
  and(and5(a, b, c, d, e), and4(f, g, h, i))
\* src/src/lib.rs:1156-1161
and10(a, b, c, d, e, f, g, h, i, j) ==
  and(and5(a, b, c, d, e), and5(f, g, h, i, j))
\* src/src/lib.rs:1181-1181
or3(a, b, c) ==
  or(or(a, b), c)
\* src/src/lib.rs:1183-1183
or4(a, b, c, d) ==
  or(or(a, b), or(c, d))
\* src/src/lib.rs:1185-1185
or5(a, b, c, d, e) ==
  or(or3(a, b, c), or(d, e))
\* src/src/lib.rs:1187-1187
or6(a, b, c, d, e, f) ==
  or(or3(a, b, c), or3(d, e, f))
\* src/src/lib.rs:1189-1191
or7(a, b, c, d, e, f, g) ==
  or(or4(a, b, c, d), or3(e, f, g))
\* src/src/lib.rs:1193-1195
or8(a, b, c, d, e, f, g, h) ==
  or(or4(a, b, c, d), or4(e, f, g, h))
\* src/src/lib.rs:1197-1199
or9(a, b, c, d, e, f, g, h, i) ==
  or(or5(a, b, c, d, e), or4(f, g, h, i))
\* src/src/lib.rs:1201-1206
or10(a, b, c, d, e, f, g, h, i, j) ==
  or(or5(a, b, c, d, e), or5(f, g, h, i, j))
\* src/src/lib.rs:1226-1231
xor3(a, b, c) ==
  or(and(xor(a, b), not(c)), not(or3(a, b, not(c))))
\* src/src/lib.rs:1233-1238
xor4(a, b, c, d) ==
  or(and(xor3(a, b, c), not(d)), not(or4(a, b, c, not(d))))
\* src/src/lib.rs:1240-1245
xor5_mut(a, b, c, d, e) == xor(xor4(a, b, c, d), e)
xor5(a, b, c, d, e) ==
  or(and(xor4(a, b, c, d), not(e)), not(or5(a, b, c, d, not(e))))
\* src/src/lib.rs:1247-1252
xor6(a, b, c, d, e, f) ==
  or(and(xor5(a, b, c, d, e), not(f)), not(or6(a, b, c, d, e, not(f))))
\* src/src/lib.rs:1254-1259
xor7(a, b, c, d, e, f, g) ==
  or(and(xor6(a, b, c, d, e, f), not(g)), not(or7(a, b, c, d, e, f, not(g))))
\* src/src/lib.rs:1261-1266
xor8(a, b, c, d, e, f, g, h) ==
  or(and(xor7(a, b, c, d, e, f, g), not(h)), not(or8(a, b, c, d, e, f, g, not(h))))
\* src/src/lib.rs:1268-1273
xor9(a, b, c, d, e, f, g, h, i) ==
  or(and(xor8(a, b, c, d, e, f, g, h), not(i)), not(or9(a, b, c, d, e, f, g, h, not(i))))
\* src/src/lib.rs:1275-1283
xor10(a, b, c, d, e, f, g, h, i, j) ==
  or(and(xor9(a, b, c, d, e, f, g, h, i), not(j)), not(or10(a, b, c, d, e, f, g, h, i, not(j))))
\* src/src/lib.rs:1308-1308
imply3(a, b, c) ==
  and(imply(a, b), imply(b, c))
\* src/src/lib.rs:1310-1312
imply4_mut(a, b, c, d) == imply(a, imply(b, imply(c, d)))
imply4(a, b, c, d) ==
  and3(imply(a, b), imply(b, c), imply(c, d))
\* src/src/lib.rs:1314-1316
imply5(a, b, c, d, e) ==
  and4(imply(a, b), imply(b, c), imply(c, d), imply(d, e))
\* src/src/lib.rs:1318-1320
imply6(a, b, c, d, e, f) ==
  and5(imply(a, b), imply(b, c), imply(c, d), imply(d, e), imply(e, f))
\* src/src/lib.rs:1322-1324
imply7(a, b, c, d, e, f, g) ==
  and6(imply(a, b), imply(b, c), imply(c, d), imply(d, e), imply(e, f), imply(f, g))
\* src/src/lib.rs:1326-1328
imply8(a, b, c, d, e, f, g, h) ==
  and7(imply(a, b), imply(b, c), imply(c, d), imply(d, e), imply(e, f), imply(f, g), imply(g, h))
\* src/src/lib.rs:1330-1333
imply9(a, b, c, d, e, f, g, h, i) ==
  and8(imply(a, b), imply(b, c), imply(c, d), imply(d, e), imply(e, f), imply(f, g), imply(g, h), imply(h, i))
\* src/src/lib.rs:1335-1341
imply10(a, b, c, d, e, f, g, h, i, j) ==
  and9(imply(a, b), imply(b, c), imply(c, d), imply(d, e), imply(e, f), imply(f, g), imply(g, h), imply(h, i), imply(i, j))

\* The arms of orn and the rules of or! for one to ten arguments.
or_fixed(vs) ==
  CASE Len(vs) = 1 -> vs[1]
    [] Len(vs) = 2 -> or(vs[1], vs[2])
    [] Len(vs) = 3 -> or3(vs[1], vs[2], vs[3])
    [] Len(vs) = 4 -> or4(vs[1], vs[2], vs[3], vs[4])
    [] Len(vs) = 5 -> or5(vs[1], vs[2], vs[3], vs[4], vs[5])
    [] Len(vs) = 6 -> or6(vs[1], vs[2], vs[3], vs[4], vs[5], vs[6])
    [] Len(vs) = 7 -> or7(vs[1], vs[2], vs[3], vs[4], vs[5], vs[6], vs[7])
    [] Len(vs) = 8 -> or8(vs[1], vs[2], vs[3], vs[4], vs[5], vs[6], vs[7], vs[8])
    [] Len(vs) = 9 -> or9(vs[1], vs[2], vs[3], vs[4], vs[5], vs[6], vs[7], vs[8], vs[9])
    [] Len(vs) = 10 -> or10(vs[1], vs[2], vs[3], vs[4], vs[5], vs[6], vs[7], vs[8], vs[9], vs[10])

\* The arms of xorn and the rules of xor! for one to ten arguments.
xor_fixed(vs) ==
  CASE Len(vs) = 1 -> vs[1]
    [] Len(vs) = 2 -> xor(vs[1], vs[2])
    [] Len(vs) = 3 -> xor3(vs[1], vs[2], vs[3])
    [] Len(vs) = 4 -> xor4(vs[1], vs[2], vs[3], vs[4])
    [] Len(vs) = 5 -> xor5(vs[1], vs[2], vs[3], vs[4], vs[5])
    [] Len(vs) = 6 -> xor6(vs[1], vs[2], vs[3], vs[4], vs[5], vs[6])
    [] Len(vs) = 7 -> xor7(vs[1], vs[2], vs[3], vs[4], vs[5], vs[6], vs[7])
    [] Len(vs) = 8 -> xor8(vs[1], vs[2], vs[3], vs[4], vs[5], vs[6], vs[7], vs[8])
    [] Len(vs) = 9 -> xor9(vs[1], vs[2], vs[3], vs[4], vs[5], vs[6], vs[7], vs[8], vs[9])
    [] Len(vs) = 10 -> xor10(vs[1], vs[2], vs[3], vs[4], vs[5], vs[6], vs[7], vs[8], vs[9], vs[10])

\* The arms of implyn and the rules of imply! for one to ten arguments.
imply_fixed(vs) ==
  CASE Len(vs) = 1 -> vs[1]
    [] Len(vs) = 2 -> imply(vs[1], vs[2])
    [] Len(vs) = 3 -> imply3(vs[1], vs[2], vs[3])
    [] Len(vs) = 4 -> imply4(vs[1], vs[2], vs[3], vs[4])
    [] Len(vs) = 5 -> imply5(vs[1], vs[2], vs[3], vs[4], vs[5])
    [] Len(vs) = 6 -> imply6(vs[1], vs[2], vs[3], vs[4], vs[5], vs[6])
    [] Len(vs) = 7 -> imply7(vs[1], vs[2], vs[3], vs[4], vs[5], vs[6], vs[7])
    [] Len(vs) = 8 -> imply8(vs[1], vs[2], vs[3], vs[4], vs[5], vs[6], vs[7], vs[8])
    [] Len(vs) = 9 -> imply9(vs[1], vs[2], vs[3], vs[4], vs[5], vs[6], vs[7], vs[8], vs[9])
    [] Len(vs) = 10 -> imply10(vs[1], vs[2], vs[3], vs[4], vs[5], vs[6], vs[7], vs[8], vs[9], vs[10])

\* src/src/lib.rs:1208-1223
RECURSIVE orn(_)
orn(vs) ==
  IF Len(vs) = 0 THEN F
  ELSE IF Len(vs) <= 10 THEN or_fixed(vs)
  ELSE or(orn(SubSeq(vs, 1, 10)), orn(SubSeq(vs, 11, Len(vs))))

\* src/src/lib.rs:1285-1305
RECURSIVE xorn(_)
xorn(vs) ==
  LET x == Len(vs)
  IN IF x = 0 THEN F
     ELSE IF x <= 10 THEN xor_fixed(vs)
     ELSE or(and(xorn(SubSeq(vs, 1, x - 1)), not(vs[x])),
             not(or(orn(SubSeq(vs, 1, x - 1)), not(vs[x]))))

\* src/src/lib.rs:1342-1360
RECURSIVE implyn(_)
implyn(vs) ==
  LET x == Len(vs)
  IN IF x = 0 THEN T
     ELSE IF x <= 10 THEN imply_fixed(vs)
     ELSE and(implyn(SubSeq(vs, 1, x - 1)), imply(vs[x - 1], vs[x]))

\* or!, src/src/lib.rs:178-217: ten arguments taken off the front.
RECURSIVE or_macro(_)
or_macro(vs) ==
  IF Len(vs) <= 10 THEN or_fixed(vs)
  ELSE or(or_fixed(SubSeq(vs, 1, 10)), or_macro(SubSeq(vs, 11, Len(vs))))

\* xor!, src/src/lib.rs:219-258: one argument taken off the front.
RECURSIVE xor_macro(_)
xor_macro(vs) ==
  IF Len(vs) <= 10 THEN xor_fixed(vs)
  ELSE or(and(not(vs[1]), xor_macro(Tail(vs))),
          not(or(not(vs[1]), or_macro(Tail(vs)))))

\* imply!, src/src/lib.rs:260-296: one implication taken off the front.
RECURSIVE imply_macro(_)
imply_macro(vs) ==
  IF Len(vs) <= 10 THEN imply_fixed(vs)
  ELSE and(imply(vs[1], vs[2]), imply_macro(Tail(vs)))

\* The argument lists tried: the first n axes, and lists where two positions
\* hold P0 and P1 and every other position holds the same word, so that the
\* columns show no, one, two, all but two, all but one and all arguments set.
ChainFill == {F, P2}
ChainArgs(n, j, k, w) == [i \in 1..n |-> IF i = j THEN P0 ELSE IF i = k THEN P1 ELSE w]

InitChain ==
  /\ \E op \in {"xorn", "xor!", "implyn", "imply!"} :
       \/ \E n \in 0..6 : inp = [op |-> op, vs |-> SubSeq(PSeq, 1, n)]
       \/ \E n \in 2..MaxArgs : \E j \in 1..n, k \in 1..n : \E w \in ChainFill :
            /\ j # k
            /\ inp = [op |-> op, vs |-> ChainArgs(n, j, k, w)]
  /\ pc = "chain"
  /\ out = F
  /\ cur = NoSeed
  /\ stack = <<>>
  /\ log = <<>>

DoXorn ==
  /\ pc = "chain"
  /\ inp.op = "xorn"
  /\ out' = xorn(inp.vs)
  /\ pc' = "done"
  /\ UNCHANGED <<inp, cur, stack, log>>

\* The macros have no rule for an empty argument list.
DoXorMacro ==
  /\ pc = "chain"
  /\ inp.op = "xor!"
  /\ Len(inp.vs) >= 1
  /\ out' = xor_macro(inp.vs)
  /\ pc' = "done"
  /\ UNCHANGED <<inp, cur, stack, log>>

DoImplyn ==
  /\ pc = "chain"
  /\ inp.op = "implyn"
  /\ out' = implyn(inp.vs)
  /\ pc' = "done"
  /\ UNCHANGED <<inp, cur, stack, log>>

DoImplyMacro ==
  /\ pc = "chain"
  /\ inp.op = "imply!"
  /\ Len(inp.vs) >= 1
  /\ out' = imply_macro(inp.vs)
  /\ pc' = "done"
  /\ UNCHANGED <<inp, cur, stack, log>>

NextChain == DoXorn \/ DoXorMacro \/ DoImplyn \/ DoImplyMacro

SpecChain == InitChain /\ [][NextChain]_vars

\* ------------------------------------------- the order of the evaluations
\* The arguments after P0..P5 of the evaluations a counter makes, in the order
\* it makes them: the terms of a sum are evaluated from left to right.
MaxOrderN == 12

\* src/src/lib.rs:627-628
count7_order ==
  <<<<F>>, <<T>>>>

\* src/src/lib.rs:632-635
count8_order ==
  <<<<F, F>>, <<F, T>>, <<T, F>>, <<T, T>>>>

\* src/src/lib.rs:639-646
count9_order ==
  <<<<F, F, F>>, <<F, F, T>>, <<F, T, F>>, <<F, T, T>>,
    <<T, F, F>>, <<T, F, T>>, <<T, T, F>>, <<T, T, T>>>>

\* src/src/lib.rs:650-665
count10_order ==
  <<<<F, F, F, F>>, <<F, F, F, T>>, <<F, F, T, F>>, <<F, F, T, T>>,
    <<F, T, F, F>>, <<F, T, F, T>>, <<F, T, T, F>>, <<F, T, T, T>>,
    <<T, F, F, F>>, <<T, F, F, T>>, <<T, F, T, F>>, <<T, F, T, T>>,
    <<T, T, F, F>>, <<T, T, F, T>>, <<T, T, T, F>>, <<T, T, T, T>>>>

\* Mutant of countK_order: count8 with its first residual variable varying
\* fastest.
countK_order_mut(k) ==
  CASE k = 7 -> count7_order
    [] k = 8 -> <<<<F, F>>, <<T, F>>, <<F, T>>, <<T, T>>>>
    [] k = 9 -> count9_order
    [] k = 10 -> count10_order
    [] OTHER -> <<<<>>>>

\* count1..count6 make one evaluation, of the axes alone.
countK_order(k) ==
  CASE k = 7 -> count7_order
    [] k = 8 -> count8_order
    [] k = 9 -> count9_order
    [] k = 10 -> count10_order
    [] OTHER -> <<<<>>>>

\* countn: for i in 0..2^s the recursive counter runs with the split variables
\* set from i, and its closure passes args = split variables, then vs.
RECURSIVE countn_order(_)
RECURSIVE countn_loop(_, _, _)
countn_loop(n, s, i) ==
  IF i = Pow2(s) THEN <<>>
  ELSE LET sub == countn_order(n - s)
       IN [k \in 1..Len(sub) |-> SplitArgs(i, s) \o sub[k]] \o countn_loop(n, s, i + 1)
countn_order(n) ==
  IF n <= 10 THEN countK_order(n)
  ELSE IF n >= 19 THEN countn_loop(n, 9, 0)
  ELSE countn_loop(n, 5, 0)

InitOrder ==
  /\ \E o \in {"countK", "countn"} :
       \E n \in (IF o = "countK" THEN 1..10 ELSE 0..MaxOrderN) :
         inp = [op |-> o, n |-> n]
  /\ pc = "invoke"
  /\ out = 0
  /\ cur = NoSeed
  /\ stack = <<>>
  /\ log = <<>>

\* The next evaluation of the user closure; log keeps the arguments after
\* the axes of the evaluations made so far.
Invoke ==
  /\ pc = "invoke"
  /\ LET order == countn_order(inp.n)
     IN /\ log' = Append(log, order[Len(log) + 1])
        /\ pc' = IF Len(log') = Len(order) THEN "done" ELSE "invoke"
  /\ UNCHANGED <<inp, out, cur, stack>>

NextOrder == Invoke

SpecOrder == InitOrder /\ [][NextOrder]_vars

\* ------------------------------------------------- the descent of countn
\* src/src/lib.rs:668-719. log is the chain of the arities countn is entered
\* with, out the number of times the counter at the end of the chain runs: a
\* loop of 2^s rounds runs the recursive counter once a round.
MaxTermN == 35

\* Mutant of split_width: the nine-variable split whatever n is.
split_width_mut(n) == 9

\* `if n >= 19` splits on nine variables (for i in 0..512), else on five
\* (for i in 0..32).
split_width(n) == IF n >= 19 THEN 9 ELSE 5

InitTerm ==
  /\ \E n \in 0..MaxTermN : inp = [n |-> n]
  /\ pc = "countn"
  /\ out = 1
  /\ cur = NoSeed
  /\ stack = <<>>
  /\ log = <<inp.n>>

\* countn(n, ..) with n beyond ten: the rounds of the loop, each running
\* countn(n - s, ..).
CountnSplit ==
  /\ pc = "countn"
  /\ LET n == log[Len(log)]
         s == split_width(n)
     IN /\ n > 10
        /\ log' = Append(log, n - s)
        /\ out' = out * Pow2(s)
  /\ UNCHANGED <<inp, pc, cur, stack>>

\* countn(n, ..) with n up to ten: the evaluations of the fixed-arity counter
\* (one for n = 0).
CountnFixed ==
  /\ pc = "countn"
  /\ LET n == log[Len(log)]
     IN /\ n <= 10
        /\ out' = out * Len(countK_order(n))
  /\ pc' = "done"
  /\ UNCHANGED <<inp, cur, stack, log>>

NextTerm == CountnSplit \/ CountnFixed

SpecTerm == InitTerm /\ [][NextTerm]_vars /\ WF_vars(NextTerm)

\* ----------------------------------- the seed in the path-semantical counters
\* path1_count1 and path1_count2 are count1 and count2, and path1_countn(0, ..)
\* evaluates inside `call`; path1_count3..path1_count10 (src/src/lib.rs:738-890)
\* evaluate (f)(..) directly, once for every pattern of their sum.
path1_evals(k) ==
  CASE k = 3 -> Len(path1_pat3)
    [] k = 4 -> Len(path1_pat4)
    [] k = 5 -> Len(path1_pat5)
    [] k = 6 -> Len(path1_pat6)
    [] k = 7 -> Len(path1_pat7)
    [] k = 8 -> Len(path1_pat8)
    [] k = 9 -> Len(path1_pat9)
    [] k = 10 -> Len(path1_pat10)

InitPathSeed ==
  /\ \E o \in {"path1_countK", "path1_proveK", "path1_countn"} :
       \E n \in (IF o = "path1_countn" THEN 0..10 ELSE 1..10) :
         \E a \in {NoSeed} \cup {Some(s) : s \in Seeds} :
           inp = [op |-> o, n |-> n, ambient |-> a]
  /\ pc = IF inp.n <= 2 THEN "enter" ELSE "path"
  /\ out = None
  /\ cur = inp.ambient
  /\ stack = <<>>
  /\ log = [evals |-> 0, seen |-> {}]

\* path1_count3..path1_count10: (f)(..), the user closure returns. It may
\* have read the ambient seed (qubit); no scope was opened around it.
PathEval ==
  /\ pc = "path"
  /\ log' = [evals |-> log.evals + 1, seen |-> log.seen \cup {cur}]
  /\ pc' = IF log'.evals = path1_evals(inp.n) THEN "returned" ELSE "path"
  /\ UNCHANGED <<inp, out, cur, stack>>

\* path1_count3..path1_count10: (f)(..), the user closure panics.
PathPanic ==
  /\ pc = "path"
  /\ log' = [log EXCEPT !.seen = @ \cup {cur}]
  /\ pc' = "aborted"
  /\ UNCHANGED <<inp, out, cur, stack>>

NextPathSeed ==
  \/ CallEnter \/ CallEval \/ CallPanic \/ CallExit \/ CallUnwind
  \/ PathEval \/ PathPanic

SpecPathSeed == InitPathSeed /\ [][NextPathSeed]_vars

\* ------------------------------------------------------------- claims

\* The low 2^k bits of a word.
Low(k) == 0..(Pow2(k) - 1)

\* The assignment column j of the first k axes stands for.
Column(j, k) == {i \in 1..k : j \in PSeq[i]}

\* Bit j of P_i is bit i of j; T is all ones, F is zero; and for k <= 6 the
\* columns 0..2^k - 1 of P0..P_{k-1} are the assignments of k variables, each
\* once.
AxesOk ==
  /\ \A i \in 0..5 : \A j \in Bit : (j \in PSeq[i + 1]) <=> ((j \div Pow2(i)) % 2 = 1)
  /\ T = Bit
  /\ F = {}
  /\ \A k \in 1..6 : \A s \in SUBSET (1..k) :
       Cardinality({j \in Low(k) : Column(j, k) = s}) = 1

\* C1: for K in 1..10, countK of the bitwise lifting of a Boolean function g is
\* the number of the 2^K assignments that satisfy g; so countK(const T) = 2^K,
\* countK(const F) = 0, and proveK is true iff g is a tautology.
C1_CountKIsModelCount ==
  (pc = "done" /\ inp.n \in 1..10) =>
    /\ out.countK = Models
    /\ (inp.f[1] = "T" => out.countK = Pow2(inp.n))
    /\ (inp.f[1] = "F" => out.countK = 0)
    /\ out.proveK = (\A s \in SUBSET (1..inp.n) : Holds(G, s))

\* C1 witness: count10 has counted the minterm of the all-true assignment once.
C1_Witness ==
  /\ pc = "done"
  /\ inp.n = 10
  /\ inp.f = <<"min", 1023, 0>>
  /\ out.countK = 1
  /\ out.proveK = FALSE

\* C2: bit j of P_i is bit i of j, T is all ones and F is zero; so for K <= 6
\* the low 2^K columns of P0..P_{K-1} are the assignments of K variables, each
\* once: the minterm of the assignment with code c evaluates, within the low
\* 2^K bits, to the word with bit c alone.
C2_AxesEnumerateAssignments ==
  /\ AxesOk
  /\ (pc = "done" /\ inp.n \in 1..6 /\ inp.f[1] = "min") =>
       /\ and(Apply(UserClosure, SubSeq(PSeq, 1, inp.n)), Low(inp.n)) = {inp.f[2]}
       /\ Column(inp.f[2], inp.n) = {i \in 1..inp.n : CodeBit(inp.f[2], i)}
       /\ out.countK = 1

\* C2 witness: count6 has counted the minterm of assignment 37 in column 37.
C2_Witness ==
  /\ pc = "done"
  /\ inp.n = 6
  /\ inp.f = <<"min", 37, 0>>
  /\ out.countK = 1
  /\ 37 \in Apply(UserClosure, PSeq)

C4_CountnIsModelCount ==
  (pc = "done" /\ inp.n >= 11) =>
    /\ inp.f[1] # "at" => out.countn = Models
    /\ inp.f[1] = "min" => out.countn = 1
    /\ inp.f[1] = "at" => out.countn = Pow2(inp.n)

\* C4 witness: countn(19, .), which splits on 9 variables, has counted the
\* minterm of the assignment whose only true variable is the last split one.
C4_Witness ==
  /\ pc = "done"
  /\ inp.n = 19
  /\ inp.f = <<"min", 256, 0>>
  /\ out.countn = 1

\* C5 (as claimed): countn(0, f) is 1 when the variable-free f is T and 0 when
\* it is F, so proven(0, const T) is true.
C5_CountnOfNoVariables ==
  (pc = "done" /\ inp.n = 0) =>
    /\ out.countn = Models
    /\ out.proven = (Models = 1)

\* C6 (as claimed): for all m, n >= 0 path1_lennm(m, n) returns
\* 2^(m+1) + (m+1)*(2^n - 2), and no arithmetic operation in it fails.
C6_LennmIsTotal ==
  pc = "done" => out = Ok(L(inp.m, inp.x))

\* C7: for m, n >= 1 path1_countnm(m, n, f) is the number of path-1 compatible
\* assignments that satisfy f, each counted once (a minterm counts 1 if its
\* assignment is compatible and 0 if not); so on const T it is L(m, n), and
\* path1_provenm is true iff f holds on every compatible assignment.
C7_CountnmCountsCompatible ==
  (pc = "done" /\ inp.m >= 1 /\ inp.x >= 1) =>
    LET pm == PathModels
        all == CompatOf[<<inp.m, inp.x>>]
    IN /\ out.countnm = Ok(pm)
       /\ (inp.f[1] = "min" =>
             out.countnm = Ok(IF {i \in 1..inp.n : CodeBit(inp.f[2], i)} \in all
                              THEN 1 ELSE 0))
       /\ (inp.f[1] = "T" => out.countnm = Ok(L(inp.m, inp.x)))
       /\ Cardinality(all) = L(inp.m, inp.x)
       /\ out.provenm = Ok(\A s \in all : Holds(G, s))

\* C7 witness: path1_countnm(3, 3, const T) has returned L(3, 3) = 40.
C7_Witness ==
  /\ pc = "done"
  /\ inp.m = 3
  /\ inp.x = 3
  /\ inp.f = <<"T", 0, 0>>
  /\ out.countnm = Ok(40)
  /\ out.provenm = Ok(TRUE)

\* C8 (as claimed): for every K in 1..10, with the split the fixed-arity
\* counter uses, path1_countnm(m, n, f) returns the number path1_countK(f)
\* returns.
C8_CountnmAgreesWithCountK ==
  (pc = "done" /\ IsSplit(inp.m, inp.x)) => out.countnm = out.countK

\* The columns of the patterns of path1_countK inside the counted windows, as
\* <<invocation, bit, assignment>>.
Patterns(k) ==
  CASE k = 3 -> path1_pat3 [] k = 4 -> path1_pat4 [] k = 5 -> path1_pat5
    [] k = 6 -> path1_pat6 [] k = 7 -> path1_pat7 [] k = 8 -> path1_pat8
    [] k = 9 -> path1_pat9 [] k = 10 -> path1_pat10

PatColumns(k) ==
  LET pat == Patterns(k)
      ws(e) == [i \in 1..Len(pat[e].fs) |-> FromBin(pat[e].fs[i])]
                 \o [i \in 1..Len(pat[e].xs) |-> FromBin(pat[e].xs[i])]
  IN {<<p[1], p[2], {i \in 1..k : p[2] \in ws(p[1])[i]}>> :
        p \in {q \in (1..Len(pat)) \X Bit : q[2] \in pat[q[1]].mask}}

\* For K in 3..10: the columns in the windows are pairwise distinct and are the
\* path-1 compatible assignments, L(m, n) of them.
PatColumnsOk ==
  \A k \in 3..10 :
    LET cols == PatColumns(k)
        m == SplitOf(k).f
        x == SplitOf(k).x
    IN /\ \A c \in cols : \A d \in cols : c[3] = d[3] => c = d
       /\ {c[3] : c \in cols} = Compat(m, x)
       /\ Cardinality(cols) = L(m, x)

\* C9: for K in 3..10 the columns of the patterns of path1_countK inside the
\* windows are pairwise distinct and are the path-1 compatible assignments, so
\* path1_countK counts the compatible assignments that satisfy f, the constant
\* path1_proveK compares with is path1_lennm(m, n), and path1_prove4 accepts
\* the core axiom.
C9_PatternsAreCompatible ==
  /\ PatColumnsOk
  /\ (pc = "done" /\ IsSplit(inp.m, inp.x) /\ inp.n >= 3) =>
       LET pm == PathModels
           all == CompatOf[<<inp.m, inp.x>>]
       IN /\ out.countK = Ok(pm)
          /\ out.proveK = (\A s \in all : Holds(G, s))
          /\ out.proveK = (pm = path1_lennm_value(inp.m, inp.x))
          /\ (inp.f[1] = "core" => out.proveK)

\* C9 witness: path1_prove4 has accepted the core axiom.
C9_Witness ==
  /\ pc = "done"
  /\ inp.n = 4
  /\ inp.f = <<"core", 0, 0>>
  /\ out.countK = Ok(14)
  /\ out.proveK = TRUE

\* C10: a counter call leaves the ambient seed as it found it, when it returns
\* and when the user closure panics: no guard of the call is left, and the
\* ambient seed is the entry that was there before the call.
C10_SeedScopeReleased ==
  pc \in {"returned", "aborted"} => (stack = <<>> /\ cur = inp.ambient)

\* C10 witness: the closure has panicked in a later evaluation of countn(11, .),
\* inside two nested scopes, called where a seed was already installed.
C10_Witness ==
  /\ pc = "aborted"
  /\ inp.op = "countn"
  /\ inp.n = 11
  /\ inp.ambient = Some(1)
  /\ log.evals >= 1
  /\ Some(2) \in log.seen

\* C11: one counter invocation installs one seed for all of its evaluations
\* of the user closure: the evaluations made by a single count7..count10 or
\* countn call never observe two different ambient seeds.
C11_OneSeedPerInvocation ==
  Cardinality(log.seen) <= 1

\* The trials of a finished measure run.
Trials == 1..log.calls

C13_QualSymmetricTransitive ==
  /\ (pc = "done" /\ inp.op = "qual") => out.ws[1] = out.ws[2]
  /\ (inp.op = "measure" /\ inp.f \in {"sym", "trans"} /\ inp.obs = "bool")
       => /\ \A i \in Trials : log.res[i] = TRUE
          /\ out.v = TRUE

\* C13 witness: qual on the diagonal, where the generator's word gates it.
C13_Witness ==
  /\ pc = "done"
  /\ inp.op = "qual"
  /\ inp.a = P0 /\ inp.b = P0
  /\ out.ws = <<P0, P0>>

C15_AmplifyMonotone ==
  (pc = "done" /\ inp.op = "amplify")
    => /\ out.ws[1] = inp.a
       /\ \A k \in 1..(inp.n + 1) :
            inp.a \subseteq out.ws[k] /\ out.ws[k] \subseteq out.ws[k + 1]

\* C15 witness: amplify grows twice, from P1 over P1 | P0 to T.
C15_Witness ==
  /\ pc = "done"
  /\ inp.op = "amplify"
  /\ inp.n = MaxAmp
  /\ out.ws[1] = P1
  /\ out.ws[2] = or(P1, P0)
  /\ out.ws[3] = T

\* The j-th iterate of qubit on a, and a or-ed with its first k iterates.
RECURSIVE QIter(_, _, _, _)
QIter(j, a, c, g) == IF j = 0 THEN a ELSE qubit(QIter(j - 1, a, c, g), c, g)

OrIterates(k, a, c, g) == UNION {QIter(j, a, c, g) : j \in 0..k}

\* C16, as claimed: amplify(n, a) = a | qubit(a) | qubit(qubit(a)) | ..., with
\* n qubit terms.
C16_AmplifyIsOrOfIterates ==
  (pc = "done" /\ inp.op = "amplify")
    => \A k \in 0..(inp.n + 1) : out.ws[k + 1] = OrIterates(k, inp.a, cur, inp.g)

\* C16, amended: amplify(0, a) = a and amplify(n + 1, a) =
\* amplify(n, a) | qubit(amplify(n, a)): qubit is taken of the accumulated
\* word; this is a | qubit(a) | ... of the claim for n <= 1.
C16_AmplifyFoldsAccumulated ==
  (pc = "done" /\ inp.op = "amplify")
    => /\ out.ws[1] = inp.a
       /\ \A k \in 1..(inp.n + 1) :
            /\ out.ws[k + 1] = or(out.ws[k], qubit(out.ws[k], cur, inp.g))
            /\ k <= 1 => out.ws[k + 1] = OrIterates(k, inp.a, cur, inp.g)

\* C16 witness: amplify(2, a) differs from a | qubit(a) | qubit(qubit(a)).
C16_Witness ==
  /\ pc = "done"
  /\ inp.op = "amplify"
  /\ inp.n >= 2
  /\ out.ws[3] # OrIterates(2, inp.a, cur, inp.g)

\* x <= y on u32.
Leq32(x, y) == x[1] < y[1] \/ (x[1] = y[1] /\ x[2] <= y[2])

\* C17: measure(n, f) calls f exactly n times and returns the min_energy fold
\* of the n results from max_energy: for bool the conjunction, for u32 the
\* minimum (u32::MAX of none); with n = 1 it returns the one result.
C17_MeasureFoldsNTrials ==
  (pc = "done" /\ inp.op = "measure")
    => /\ log.calls = inp.n
       /\ Len(log.res) = inp.n
       /\ inp.obs = "bool" => out.v = (\A i \in Trials : log.res[i] = TRUE)
       /\ inp.obs = "u32" =>
            IF inp.n = 0 THEN out.v = <<65535, 65535>>
            ELSE /\ \E i \in Trials : out.v = log.res[i]
                 /\ \A i \in Trials : Leq32(out.v, log.res[i])
       /\ inp.n = 1 => out.v = log.res[1]

\* C17 witness: three counts of |a| qual(a, a), the first 2 and the least 1.
C17_Witness ==
  /\ pc = "done"
  /\ inp.op = "measure" /\ inp.f = "q" /\ inp.obs = "u32"
  /\ inp.n = MaxTrials
  /\ log.res[1] = <<0, 2>>
  /\ out.v = <<0, 1>>

\* The closures whose result is the same under every seed, and that result.
ConstFormulas == {"T", "F", "qq", "sym", "trans"}
ConstValue(o, d) ==
  IF o = "bool" THEN d # "F"
  ELSE IF d = "F" THEN <<0, 0>> ELSE <<0, Pow2(QArity(d))>>

\* C18, as claimed: if f returns v on every call, measure(n, f) returns v for
\* every n >= 0.
C18_MeasureOfConstantAnyN ==
  (pc = "done" /\ inp.op = "measure" /\ inp.f \in ConstFormulas)
    => out.v = ConstValue(inp.obs, inp.f)

\* C18, amended: if f returns v on every call, measure(n, f) returns v for
\* every n >= 1; measure(0, f) returns max_energy.
C18_MeasureOfConstant ==
  (pc = "done" /\ inp.op = "measure" /\ inp.f \in ConstFormulas)
    => out.v = IF inp.n >= 1 THEN ConstValue(inp.obs, inp.f) ELSE max_energy(inp.obs)

\* C18 witness: measure(n, || prove1(|a| F)) after all its trials.
C18_Witness ==
  /\ pc = "done"
  /\ inp.op = "measure" /\ inp.f = "F" /\ inp.obs = "bool"
  /\ inp.n = MaxTrials
  /\ out.v = FALSE

\* The number of assignments of the system's words that satisfy its core
\* rules and the formulas ds.
RulesAnd2(a, b) ==
  NumSat(Bin("and", Formula(inp.core, inp.n), Bin("and", a, b)), inp.n)
RulesAnd(a) == RulesAnd2(a, TT)

\* C19: prob(f) is None iff no assignment satisfies the rules; otherwise it
\* is (assignments satisfying rules and f) / (assignments satisfying rules);
\* and its subtractions never underflow.
C19_ProbIsConditionalCount ==
  (pc = "done" /\ inp.op = "prob")
    => /\ out.ok
       /\ out.v.some <=> RulesAnd(TT) # 0
       /\ out.v.some =>
            out.v.num * RulesAnd(TT) = RulesAnd(Formula(inp.a, inp.n)) * out.v.den

\* C19 witness: the rules a => b hold in 6 of 8 assignments, b in 4 of these.
C19_Witness ==
  /\ pc = "done"
  /\ inp.op = "prob"
  /\ inp.n = 3
  /\ inp.core = <<"imply", 1, 2>>
  /\ inp.a = <<"var", 2, 0>>
  /\ out = OkP(SomeP(4, 6))

\* C20, as claimed: prob_imply(a, b) is None exactly when no assignment
\* satisfies the rules, and otherwise the conditional probability.
C20_ProbImplyUndefinedAsProb ==
  (pc = "done" /\ inp.op = "prob_imply")
    => /\ out.ok
       /\ out.v.some <=> RulesAnd(TT) # 0

\* C20, amended: prob_imply(a, b) is None exactly when no assignment satisfies
\* the rules and a; otherwise it is (assignments satisfying rules, a and b) /
\* (assignments satisfying rules and a), without underflow.
C20_ProbImplyIsConditionalCount ==
  (pc = "done" /\ inp.op = "prob_imply")
    => /\ out.ok
       /\ out.v.some <=> RulesAnd(Formula(inp.a, inp.n)) # 0
       /\ out.v.some =>
            out.v.num * RulesAnd(Formula(inp.a, inp.n))
              = RulesAnd2(Formula(inp.a, inp.n), Formula(inp.b, inp.n)) * out.v.den

\* C20 witness: the rules can be satisfied, the assumption a cannot.
C20_Witness ==
  /\ pc = "done"
  /\ inp.op = "prob_imply"
  /\ inp.n = 3
  /\ inp.core = <<"imply", 1, 2>>
  /\ inp.a = <<"F", 0, 0>>
  /\ out = OkP(NoneP)

\* Every rule that is to constrain a system: its core rules, its extend
\* rules and those of its inner systems; for a tuple, those of every
\* component.
RECURSIVE AllRules(_)
AllRules(s) ==
  CASE s.kind = "unit" -> <<>>
    [] s.kind = "base" -> <<Formula(s.core, s.n)>>
    [] s.kind = "ext" -> <<Formula(s.core, s.n), Formula(s.ext, s.n)>> \o AllRules(s.inner)
    [] s.kind = "tuple" ->
         IF Len(s.comps) = 2 THEN AllRules(s.comps[1]) \o AllRules(s.comps[2])
         ELSE AllRules(s.comps[1]) \o AllRules(s.comps[2]) \o AllRules(s.comps[3])

\* The assignment a satisfies all the rules rs.
Sat(a, rs) == \A i \in 1..Len(rs) : Holds(rs[i], a)

\* The full rules select the columns whose assignments satisfy all rules of
\* the system, and prove(f) is true iff f holds under each of them.
RulesAndProveOk ==
  LET n == inp.sys.n
      rs == AllRules(inp.sys)
  IN /\ out.rules = {j \in 0..(Pow2(n) - 1) : Sat(Column(j, n), rs)}
     /\ out.prove <=> \A a \in SUBSET (1..n) : Sat(a, rs) => Holds(Formula(inp.f, n), a)

\* C21: for a system nested to any depth (down to the unit system),
\* full_rules is the conjunction of the core and extend rules of all its
\* layers, and prove(f) is true iff imply(full_rules, f) holds under every one
\* of the 2^n assignments of its n words.
C21_NestedFullRulesAndProve ==
  (pc = "done" /\ inp.sys.kind # "tuple") => RulesAndProveOk

\* C30: the full rules of a tuple of systems are the conjunction of the full
\* rules of its components, and these constrain what is proved over the tuple.
C30_TupleFullRules ==
  (pc = "done" /\ inp.sys.kind = "tuple") => RulesAndProveOk

\* C22: the derived construct fills the leaf words of a record, in
\* declaration order and depth first, from the consecutive slots vs[0],
\* vs[1], ...: every slot is read by exactly one leaf.
C22_ConstructFillsInOrder ==
  pc = "done" => out = [j \in 1..type_n(inp) |-> j - 1]

\* C23: all(f) is T iff f(v) = T for every value v of the type, the start
\* value included, and F otherwise; any(f) is T iff f(v) != F for some value v,
\* and F otherwise; and no value is visited twice.
C23_AnyAllQuantify ==
  /\ \A i \in 1..Len(log) : \A j \in 1..Len(log) : log[i] = log[j] => i = j
  /\ (pc = "done" /\ inp.op = "all")
       => out.ret = IF \A v \in EnumValues(inp.ty) : inp.f[v] = T THEN T ELSE F
  /\ (pc = "done" /\ inp.op = "any")
       => out.ret = IF \E v \in EnumValues(inp.ty) : inp.f[v] # F THEN T ELSE F

\* C24: xor3..xor10, xorn (also beyond ten arguments) and xor! give, in every
\* column, true exactly when exactly one argument is true there (not the
\* parity); xorn of no argument is F and of one argument is that argument.
ExactlyOne(vs) == {b \in Bit : Cardinality({i \in 1..Len(vs) : b \in vs[i]}) = 1}
C24_XorIsExactlyOne ==
  (pc = "done" /\ inp.op \in {"xorn", "xor!"}) =>
    /\ out = ExactlyOne(inp.vs)
    /\ Len(inp.vs) = 0 => out = F
    /\ Len(inp.vs) = 1 => out = inp.vs[1]

RECURSIVE ParityChain(_)
ParityChain(vs) == IF vs = <<>> THEN F ELSE xor(ParityChain(Tail(vs)), Head(vs))
C24_Witness ==
  /\ pc = "done"
  /\ inp.op = "xorn"
  /\ Len(inp.vs) > 10
  /\ out # F
  /\ out # ParityChain(inp.vs)

\* C25: implyn, imply3..imply10 and imply! give the conjunction of the
\* implications between consecutive arguments; implyn of no argument is T.
RECURSIVE Consecutive(_)
Consecutive(vs) ==
  IF Len(vs) < 2 THEN T ELSE and(imply(vs[1], vs[2]), Consecutive(Tail(vs)))
C25_ImplyIsConsecutive ==
  (pc = "done" /\ inp.op \in {"implyn", "imply!"}) =>
    /\ Len(inp.vs) # 1 => out = Consecutive(inp.vs)
    /\ Len(inp.vs) = 0 => out = T

RECURSIVE Nested25(_)
Nested25(vs) ==
  IF Len(vs) = 1 THEN vs[1] ELSE imply(vs[1], Nested25(Tail(vs)))
C25_Witness ==
  /\ pc = "done"
  /\ inp.op = "imply!"
  /\ Len(inp.vs) > 10
  /\ out \notin {F, T}
  /\ out # Nested25(inp.vs)

\* C26: seed scopes nest as a stack. Every open scope keeps the seed that was
\* installed when it began (the caller's, for the outermost), the ambient seed
\* that qubit reads is the innermost open scope's seed, and when a scope ends
\* the ambient seed is again the seed of the scope around it.
C26_SeedScopesNest ==
  /\ \A k \in 1..Len(stack) :
       stack[k].old = IF k = 1 THEN inp.ambient ELSE Some(stack[k - 1].r)
  /\ cur = IF stack = <<>> THEN inp.ambient ELSE Some(stack[Len(stack)].r)

\* countn(11, f): the inner scope has ended after the closure read its seed,
\* and the outer scope's different seed is the ambient seed again.
C26_Witness ==
  /\ inp.op = "countn"
  /\ inp.n = 11
  /\ pc = "exit"
  /\ Len(stack) = 1
  /\ log.seen # {}
  /\ Some(stack[1].r) \notin log.seen
  /\ cur = Some(stack[1].r)

\* C27: a counter invokes the closure in one fixed order. count7..count10
\* make 2^(K-6) evaluations, the k-th with the residual variables v7..vK set
\* to the binary digits of k (F for 0, the last variable the lowest digit);
\* countn beyond ten variables goes through the split indices 0, 1, 2, ... in
\* increasing order.
LexArgs(m, k) == [j \in 1..m |-> IF (k \div Pow2(m - j)) % 2 = 1 THEN T ELSE F]
SplitIndex(t) ==
  (IF t[1] = T THEN 1 ELSE 0) + (IF t[2] = T THEN 2 ELSE 0)
  + (IF t[3] = T THEN 4 ELSE 0) + (IF t[4] = T THEN 8 ELSE 0)
  + (IF t[5] = T THEN 16 ELSE 0)
C28_Descent ==
  inp.n >= 6 =>
    /\ \A k \in 1..Len(log) : log[k] >= 6
    /\ \A k \in 2..Len(log) :
         log[k - 1] - log[k] = IF log[k - 1] >= 19 THEN 9 ELSE 5
    /\ \A k \in 2..Len(log) : log[k - 1] >= 11
    /\ pc = "done" => (log[Len(log)] \in 6..10 /\ out = Pow2(inp.n - 6))
C28_CountnTerminates == []C28_Descent /\ <>(pc = "done")

C28_Witness ==
  /\ pc = "done"
  /\ inp.n = 29
  /\ log = <<29, 20, 11, 6>>

\* C29: every evaluation of the user closure by a public counter or prover,
\* path1_count3..path1_count10 and path1_prove3..path1_prove10 included, is
\* made while an ambient seed is installed.
C29_EveryEvaluationSeeded ==
  NoSeed \notin log.seen

====
